---- MODULE Spec2Model ----
(***************************************************************************)
(* A model of the erlpack codec: the value encoder (src/encoder.go and the *)
(* older encoder of src/unnamed/part_000), the value-tree decoder          *)
(* (src/decoder.go) and the Etf entry points (src/main.go).                *)
(*                                                                         *)
(* Bytes are naturals 0..255, byte strings and Go strings are sequences of *)
(* bytes.  A Go value of type any is a tagged tuple:                       *)
(*   <<"nil">>                 the nil interface                           *)
(*   <<"bool", b>>             bool                                        *)
(*   <<"int", n>>              int                                         *)
(*   <<"int32", n>>            int32                                       *)
(*   <<"uint32", l>>           uint32, l its 4 little-endian base-256 limbs*)
(*   <<"float64", b>>          float64, b its 8 big-endian IEEE-754 bytes  *)
(*   <<"float64", "text", s>>  float64 parsed from the decimal text s      *)
(*   <<"string", s>>           string                                      *)
(*   <<"list", e>>             []any                                       *)
(*   <<"map", f>>              map[string]any, f a function on its keys    *)
(* TLC's integers are 32 bits wide, so a uint32 or uint64 is kept as its   *)
(* bytes and converted to a number only where the number fits.             *)
(***************************************************************************)
EXTENDS Integers, Sequences, FiniteSets, TLC

VARIABLES
    data,       \* Decoder.data of the Etf instance
    offset,     \* Decoder.offset of the Etf instance
    alive,      \* FALSE once a call has panicked (nothing in src/ recovers)
    value,      \* the Go value the caller last handed to an encoder
    wire,       \* the byte string the caller holds
    origin,     \* how the caller built wire
    ret,        \* what the last call returned
    dec,        \* the Decoder (data, offset) of each of the separate instances
    calls,      \* the Unpack call in progress of each caller of those instances
    last        \* the last statement one of those calls ran on its Decoder

vars == <<data, offset, alive, value, wire, origin, ret, dec, calls, last>>

\* ---------------------------------------------------------------- tags
SMALL_INTEGER_EXT == 97
INTEGER_EXT == 98
FLOAT_EXT == 99
ATOM_EXT == 100
SMALL_ATOM_EXT == 115
SMALL_TUPLE_EXT == 104
LARGE_TUPLE_EXT == 105
NIL_EXT == 106
STRING_EXT == 107
LIST_EXT == 108
MAP_EXT == 116
BINARY_EXT == 109
SMALL_BIG_EXT == 110
LARGE_BIG_EXT == 111
NEW_FLOAT_EXT == 70
COMPRESSED == 80
FORMAT_VERSION == 131

\* ---------------------------------------------------------------- errors
NoErr == "nil"
ErrRead8 == "reading a byte exceeds buffer size"
ErrRead16 == "reading two bytes exceeds buffer size"
ErrRead32 == "reading four bytes exceeds buffer size"
ErrRead64 == "reading eight bytes exceeds buffer size"
ErrReadString == "reading sequence past the end of the buffer"
ErrStringAsList == "reading sequence past the end of the buffer (1)"
ErrFloat == "invalid float encoded"
ErrTail == "list doesn't end with a tail marker, but it must"
ErrBig == "Unable to decode big ints larger than 8 bytes"
ErrVersion == "invalid or missing format version"
ErrTag == "unsupported tag"
ErrZlibReader == "failed to create zlib reader"
ErrDecompress == "failed to decompress data"
PanicZeroValue == "panic: reflect: call of reflect.Value.Type on zero Value"
PanicSliceBounds == "panic: runtime error: slice bounds out of range"

\* The errors of the cursor's bounds checks.
BoundsErrors ==
    {ErrRead8, ErrRead16, ErrRead32, ErrRead64, ErrReadString, ErrStringAsList}

IsPanic(e) == e \in {PanicZeroValue, PanicSliceBounds}

\* ---------------------------------------------------------------- values
NilV == <<"nil">>
BoolV(b) == <<"bool", b>>
IntV(n) == <<"int", n>>
Int32V(n) == <<"int32", n>>
Uint32V(l) == <<"uint32", l>>
FloatV(b) == <<"float64", b>>
FloatTextV(s) == <<"float64", "text", s>>
StringV(s) == <<"string", s>>
ListV(e) == <<"list", e>>
MapV(f) == <<"map", f>>

Kind(v) == v[1]

\* m[k] = v of a Go map.
MapPut(m, k, v) == [x \in (DOMAIN m) \cup {k} |-> IF x = k THEN v ELSE m[x]]

\* What a call returns, and the decoder it leaves.
Ret(v, e, d) == [val |-> v, err |-> e, d |-> d]

\* ---------------------------------------------------------------- bytes
Byte == 0..255

\* s[from+1 .. to], Go's s[from:to].
Slice(s, from, to) == SubSeq(s, from + 1, to)

Zeros(n) == [i \in 1..n |-> 0]

\* int32(uint32) of 4 big-endian bytes: two's complement.
Int32OfBE(b) ==
    (IF b[1] >= 128 THEN b[1] - 256 ELSE b[1]) * 16777216
        + b[2] * 65536 + b[3] * 256 + b[4]

\* A uint32 used as a count or a length.  A count of 2^30 or more is more
\* than any buffer of the model holds and is kept as 2^30, so that adding an
\* offset to it stays within TLC's 32-bit integers.
CountOfBE(b) ==
    IF b[1] >= 64 THEN 1073741824
    ELSE b[1] * 16777216 + b[2] * 65536 + b[3] * 256 + b[4]

Uint16OfBE(b) == b[1] * 256 + b[2]

\* ---------------------------------------------------------------- cursor
\* read8 with a fault: the offset is not advanced.
read8_NoAdvance(d) ==
    IF d.offset + 1 > Len(d.data) THEN Ret(0, ErrRead8, d)
    ELSE Ret(d.data[d.offset + 1], NoErr, d)

read8(d) ==
    IF d.offset + 1 > Len(d.data) THEN Ret(0, ErrRead8, d)
    ELSE Ret(d.data[d.offset + 1], NoErr, [d EXCEPT !.offset = @ + 1])

read16(d) ==
    IF d.offset + 2 > Len(d.data) THEN Ret(0, ErrRead16, d)
    ELSE Ret(Uint16OfBE(Slice(d.data, d.offset, d.offset + 2)), NoErr,
             [d EXCEPT !.offset = @ + 2])

\* The value is the 4 bytes read, big-endian.
read32(d) ==
    IF d.offset + 4 > Len(d.data) THEN Ret(Zeros(4), ErrRead32, d)
    ELSE Ret(Slice(d.data, d.offset, d.offset + 4), NoErr,
             [d EXCEPT !.offset = @ + 4])

\* The value is the 8 bytes read, big-endian.
read64(d) ==
    IF d.offset + 8 > Len(d.data) THEN Ret(Zeros(8), ErrRead64, d)
    ELSE Ret(Slice(d.data, d.offset, d.offset + 8), NoErr,
             [d EXCEPT !.offset = @ + 8])

readString(d, length) ==
    IF d.offset + length > Len(d.data) THEN Ret(<<>>, ErrReadString, d)
    ELSE Ret(Slice(d.data, d.offset, d.offset + length), NoErr,
             [d EXCEPT !.offset = @ + length])

\* reset with a fault: the offset is kept.
reset_KeepOffset(d) == [data |-> <<>>, offset |-> d.offset]

reset(d) == [data |-> <<>>, offset |-> 0]

NewDecoder == [data |-> <<>>, offset |-> 0]
\* ---------------------------------------------------------------- uint64
\* A uint64 is its 8 base-256 limbs, least significant first.
IsZero(v) == \A i \in 1..Len(v) : v[i] = 0

\* The limbs of n, 0 <= n < 2^31, in w limbs.
LimbsOfNat(n, w) ==
    [i \in 1..w |->
        IF i = 1 THEN n % 256
        ELSE IF i = 2 THEN (n \div 256) % 256
        ELSE IF i = 3 THEN (n \div 65536) % 256
        ELSE IF i = 4 THEN (n \div 16777216) % 256
        ELSE 0]

\* uint64(v) of a Go int that fits 32 bits: two's complement, sign-extended.
Uint64OfInt(n) ==
    IF n >= 0 THEN LimbsOfNat(n, 8)
    ELSE [i \in 1..8 |-> 255 - LimbsOfNat(-(n + 1), 8)[i]]

\* The number of the 4 low limbs, when bit 31 is clear.
NatOfLimbs4(v) == v[1] + v[2] * 256 + v[3] * 65536 + v[4] * 16777216

RECURSIVE DivMod10(_, _, _)
\* v / 10 and v % 10 by long division from limb i down, r the running remainder.
DivMod10(v, i, r) ==
    IF i = 0 THEN [q |-> v, r |-> r]
    ELSE LET cur == r * 256 + v[i]
         IN  DivMod10([v EXCEPT ![i] = cur \div 10], i - 1, cur % 10)

RECURSIVE uint64Digits(_, _)
\* The loop of uint64ToString: the digits of v in front of acc.
uint64Digits(v, acc) ==
    IF IsZero(v) THEN acc
    ELSE LET dm == DivMod10(v, Len(v), 0)
         IN  uint64Digits(dm.q, <<48 + dm.r>> \o acc)

uint64ToString(v) ==
    IF IsZero(v) THEN <<48>> \o Zeros(19)
    ELSE uint64Digits(v, <<>>)

\* ---------------------------------------------------------------- floats
\* strconv.ParseFloat accepts s.  The model knows the decimal syntax
\* [sign] digits [. digits] [e [sign] digits]; the inputs of the model hold no
\* other spelling (inf, nan, hexadecimal).
IsDigit(c) == c >= 48 /\ c <= 57

RECURSIVE FloatScan(_, _, _)
\* st: 0 start, 1 after the sign, 2 in the integer digits, 3 after a point that
\* follows digits, 4 after a point that follows none, 5 in the fraction digits,
\* 6 after e, 7 after the exponent's sign, 8 in the exponent digits.
FloatScan(s, i, st) ==
    IF i > Len(s) THEN st \in {2, 3, 5, 8}
    ELSE LET c == s[i] IN
         CASE st = 0 /\ c \in {43, 45} -> FloatScan(s, i + 1, 1)
           [] st \in {0, 1, 2} /\ IsDigit(c) -> FloatScan(s, i + 1, 2)
           [] st \in {0, 1} /\ c = 46 -> FloatScan(s, i + 1, 4)
           [] st = 2 /\ c = 46 -> FloatScan(s, i + 1, 3)
           [] st \in {3, 4, 5} /\ IsDigit(c) -> FloatScan(s, i + 1, 5)
           [] st \in {2, 3, 5} /\ c \in {69, 101} -> FloatScan(s, i + 1, 6)
           [] st = 6 /\ c \in {43, 45} -> FloatScan(s, i + 1, 7)
           [] st \in {6, 7, 8} /\ IsDigit(c) -> FloatScan(s, i + 1, 8)
           [] OTHER -> FALSE

ParseFloatOk(s) == FloatScan(s, 1, 0)

\* bytes.IndexByte(s, 0), or -1.
IndexByte0(s) ==
    IF \E i \in 1..Len(s) : s[i] = 0
    THEN (CHOOSE i \in 1..Len(s) : s[i] = 0 /\ \A j \in 1..(i - 1) : s[j] # 0) - 1
    ELSE -1

\* strconv.FormatFloat(v, 'f', -1, 64) of the float64 values the model's
\* inputs hold: 0, 1.5 and -2 by their bits; any other is left unformatted.
FormatFloat(v) ==
    IF v = FloatV(<<0, 0, 0, 0, 0, 0, 0, 0>>) THEN <<48>>
    ELSE IF v = FloatV(<<63, 248, 0, 0, 0, 0, 0, 0>>) THEN <<49, 46, 53>>
    ELSE IF v = FloatV(<<192, 0, 0, 0, 0, 0, 0, 0>>) THEN <<45, 50>>
    ELSE <<63>>

\* ---------------------------------------------------------------- map keys
TypeNameInt32 == <<105, 110, 116, 51, 50>>
TypeNameUint32 == <<117, 105, 110, 116, 51, 50>>
TypeNameSlice == <<91, 93, 105, 110, 116, 101, 114, 102, 97, 99, 101, 32, 123, 125>>
TypeNameMap ==
    <<109, 97, 112, 91, 115, 116, 114, 105, 110, 103, 93>>
        \o <<105, 110, 116, 101, 114, 102, 97, 99, 101, 32, 123, 125>>
TextTrue == <<116, 114, 117, 101>>
TextFalse == <<102, 97, 108, 115, 101>>
TextNil == <<110, 105, 108>>
TextNull == <<110, 117, 108, 108>>

\* [s: the key's string, err: NoErr or the panic of reflect's Type on nil].
keyToString(key) ==
    CASE Kind(key) = "string" -> [s |-> key[2], err |-> NoErr]
      [] Kind(key) = "int" -> [s |-> uint64ToString(Uint64OfInt(key[2])), err |-> NoErr]
      [] Kind(key) = "bool" ->
            [s |-> IF key[2] THEN TextTrue ELSE TextFalse, err |-> NoErr]
      [] Kind(key) = "float64" -> [s |-> FormatFloat(key), err |-> NoErr]
      [] Kind(key) = "int32" -> [s |-> TypeNameInt32, err |-> NoErr]
      [] Kind(key) = "uint32" -> [s |-> TypeNameUint32, err |-> NoErr]
      [] Kind(key) = "list" -> [s |-> TypeNameSlice, err |-> NoErr]
      [] Kind(key) = "map" -> [s |-> TypeNameMap, err |-> NoErr]
      [] OTHER -> [s |-> <<>>, err |-> PanicZeroValue]

\* ---------------------------------------------------------------- scalars
decodeSmallInteger(d) ==
    LET r == read8(d)
    IN  IF r.err # NoErr THEN Ret(IntV(0), r.err, r.d)
        ELSE Ret(IntV(r.val), NoErr, r.d)

decodeInteger(d) ==
    LET r == read32(d)
    IN  IF r.err # NoErr THEN Ret(Int32V(0), r.err, r.d)
        ELSE Ret(Int32V(Int32OfBE(r.val)), NoErr, r.d)

decodeFloat(d) ==
    LET r == readString(d, 31)
        i == IndexByte0(r.val)
        str == IF i >= 0 THEN SubSeq(r.val, 1, i) ELSE r.val
    IN  IF r.err # NoErr THEN Ret(FloatV(Zeros(8)), r.err, r.d)
        ELSE IF ~ParseFloatOk(str) THEN Ret(FloatV(Zeros(8)), ErrFloat, r.d)
        ELSE Ret(FloatTextV(str), NoErr, r.d)

decodeNewFloat(d) ==
    LET r == read64(d)
    IN  IF r.err # NoErr THEN Ret(FloatV(Zeros(8)), r.err, r.d)
        ELSE Ret(FloatV(r.val), NoErr, r.d)

\* processAtom with a fault: "null" is not classified.
processAtom_NoNull(atom) ==
    IF atom = <<>> THEN NilV
    ELSE IF atom = TextNil THEN NilV
    ELSE IF atom = TextTrue THEN BoolV(TRUE)
    ELSE IF atom = TextFalse THEN BoolV(FALSE)
    ELSE StringV(atom)

processAtom(atom) ==
    IF atom = <<>> THEN NilV
    ELSE IF atom = TextNil THEN NilV
    ELSE IF atom = TextNull THEN NilV
    ELSE IF atom = TextTrue THEN BoolV(TRUE)
    ELSE IF atom = TextFalse THEN BoolV(FALSE)
    ELSE StringV(atom)

decodeAtom(d) ==
    LET l == read16(d)
        a == readString(l.d, l.val)
    IN  IF l.err # NoErr THEN Ret(NilV, l.err, l.d)
        ELSE IF a.err # NoErr THEN Ret(NilV, a.err, a.d)
        ELSE Ret(processAtom(a.val), NoErr, a.d)

decodeSmallAtom(d) ==
    LET l == read8(d)
        a == readString(l.d, l.val)
    IN  IF l.err # NoErr THEN Ret(NilV, l.err, l.d)
        ELSE IF a.err # NoErr THEN Ret(NilV, a.err, a.d)
        ELSE Ret(processAtom(a.val), NoErr, a.d)

decodeNil(d) == Ret(ListV(<<>>), NoErr, d)

RECURSIVE decodeStringAsListLoop(_, _, _)
decodeStringAsListLoop(d, n, acc) ==
    IF n = 0 THEN Ret(ListV(acc), NoErr, d)
    ELSE LET r == decodeSmallInteger(d)
         IN  IF r.err # NoErr THEN Ret(ListV(<<>>), r.err, r.d)
             ELSE decodeStringAsListLoop(r.d, n - 1, Append(acc, r.val))

decodeStringAsList(d) ==
    LET l == read16(d)
    IN  IF l.err # NoErr THEN Ret(ListV(<<>>), l.err, l.d)
        ELSE IF l.d.offset + l.val > Len(l.d.data)
             THEN Ret(ListV(<<>>), ErrStringAsList, l.d)
        ELSE decodeStringAsListLoop(l.d, l.val, <<>>)

decodeBinaryAsString(d) ==
    LET l == read32(d)
        s == readString(l.d, CountOfBE(l.val))
    IN  IF l.err # NoErr THEN Ret(StringV(<<>>), l.err, l.d)
        ELSE IF s.err # NoErr THEN Ret(StringV(<<>>), s.err, s.d)
        ELSE Ret(StringV(s.val), NoErr, s.d)

\* ---------------------------------------------------------------- big integers
RECURSIVE decodeBigLoop(_, _, _)
\* The digit loop: [val: the limbs read so far, err, d].
decodeBigLoop(d, n, acc) ==
    IF n = 0 THEN Ret(acc, NoErr, d)
    ELSE LET r == read8(d)
         IN  IF r.err # NoErr THEN Ret(acc, r.err, r.d)
             ELSE decodeBigLoop(r.d, n - 1, Append(acc, r.val))

\* decodeBig with a fault: the width limit one too high.
decodeBig_Limit9(d, digits) ==
    LET s == read8(d)
        l == decodeBigLoop(s.d, digits, <<>>)
        v == l.val \o Zeros(8 - Len(l.val))
    IN  IF s.err # NoErr THEN Ret(NilV, s.err, s.d)
        ELSE IF digits > 9 THEN Ret(NilV, ErrBig, s.d)
        ELSE IF l.err # NoErr THEN Ret(NilV, l.err, l.d)
        ELSE IF s.val # 0
             THEN Ret(StringV(<<45>> \o uint64ToString(v)), NoErr, l.d)
        ELSE Ret(StringV(uint64ToString(v)), NoErr, l.d)

decodeBig(d, digits) ==
    LET s == read8(d)
        l == decodeBigLoop(s.d, digits, <<>>)
        v == l.val \o Zeros(8 - Len(l.val))
    IN  IF s.err # NoErr THEN Ret(NilV, s.err, s.d)
        ELSE IF digits > 8 THEN Ret(NilV, ErrBig, s.d)
        ELSE IF l.err # NoErr THEN Ret(NilV, l.err, l.d)
        ELSE IF digits <= 4 /\ s.val = 0
             THEN Ret(Uint32V(SubSeq(v, 1, 4)), NoErr, l.d)
        ELSE IF digits <= 4 /\ v[4] < 128
             THEN Ret(Int32V(-NatOfLimbs4(v)), NoErr, l.d)
        ELSE IF s.val # 0
             THEN Ret(StringV(<<45>> \o uint64ToString(v)), NoErr, l.d)
        ELSE Ret(StringV(uint64ToString(v)), NoErr, l.d)

decodeSmallBig(d) ==
    LET r == read8(d)
    IN  IF r.err # NoErr THEN Ret(NilV, r.err, r.d)
        ELSE decodeBig(r.d, r.val)

decodeLargeBig(d) ==
    LET r == read32(d)
    IN  IF r.err # NoErr THEN Ret(NilV, r.err, r.d)
        ELSE decodeBig(r.d, CountOfBE(r.val))
\* ---------------------------------------------------------------- zlib
\* compress/zlib over deflate's stored blocks, the blocks that Compress below
\* writes; a block of another type is not in the model's inputs and inflates
\* to nothing.
RECURSIVE SumBytes(_, _)
SumBytes(s, i) == IF i = 0 THEN 0 ELSE SumBytes(s, i - 1) + s[i]

RECURSIVE AdlerB(_, _)
\* Adler-32's second sum: the sum of the running first sums.
AdlerB(s, i) ==
    IF i = 0 THEN 0 ELSE (AdlerB(s, i - 1) + 1 + SumBytes(s, i)) % 65521

Adler32(s) ==
    LET a == (1 + SumBytes(s, Len(s))) % 65521
        b == AdlerB(s, Len(s))
    IN  <<b \div 256, b % 256, a \div 256, a % 256>>

\* zlib.NewReader accepts the 2-byte header: deflate, window <= 32K, the check
\* bits right, no preset dictionary.
ZlibHeaderOk(s) ==
    /\ Len(s) >= 2
    /\ s[1] % 16 = 8
    /\ s[1] \div 16 <= 7
    /\ (s[1] * 256 + s[2]) % 31 = 0
    /\ (s[2] \div 32) % 2 = 0

RECURSIVE InflateStored(_, _)
\* The bytes the reader yields from position i (0-based) of s before it meets
\* the end of the stream, its truncation or a corrupt block header.
InflateStored(s, i) ==
    IF i + 5 > Len(s) THEN <<>>
    ELSE LET final == s[i + 1] % 2 = 1
             btype == (s[i + 1] \div 2) % 4
             n == s[i + 2] + 256 * s[i + 3]
             nn == s[i + 4] + 256 * s[i + 5]
             got == IF i + 5 + n > Len(s) THEN Len(s) - (i + 5) ELSE n
             body == Slice(s, i + 5, i + 5 + got)
         IN  IF btype # 0 \/ n + nn # 65535 THEN <<>>
             ELSE IF final \/ got < n THEN body
             ELSE body \o InflateStored(s, i + 5 + n)

\* io.ReadFull(reader, outBuffer) of a reader over s: [ok, out].  ReadFull drops
\* the reader's error once len(outBuffer) bytes are read, so neither the
\* checksum nor what follows those bytes is looked at.
ReadFullZlib(s, size) ==
    LET avail == IF size = 0 THEN <<>> ELSE InflateStored(s, 2)
    IN  IF Len(avail) >= size
        THEN [ok |-> TRUE, out |-> SubSeq(avail, 1, size)]
        ELSE [ok |-> FALSE, out |-> <<>>]

\* ---------------------------------------------------------------- terms
RECURSIVE decode(_)
RECURSIVE decodeArrayLoop(_, _, _)
RECURSIVE decodeMapLoop(_, _, _)
RECURSIVE unpack(_, _)

\* decodeArrayLoop with a fault: an element's error returns the elements read.
decodeArrayLoop_Partial(d, n, acc) ==
    IF n = 0 THEN Ret(ListV(acc), NoErr, d)
    ELSE LET r == decode(d)
         IN  IF r.err # NoErr THEN Ret(ListV(acc), r.err, r.d)
             ELSE decodeArrayLoop(r.d, n - 1, Append(acc, r.val))

\* The loop of decodeArray: n elements left, acc the elements read.
decodeArrayLoop(d, n, acc) ==
    IF n = 0 THEN Ret(ListV(acc), NoErr, d)
    ELSE LET r == decode(d)
         IN  IF r.err # NoErr THEN Ret(ListV(<<>>), r.err, r.d)
             ELSE decodeArrayLoop(r.d, n - 1, Append(acc, r.val))

decodeArray(d, length) == decodeArrayLoop(d, length, <<>>)

decodeTuple(d, length) == decodeArray(d, length)

decodeSmallTuple(d) ==
    LET l == read8(d)
    IN  IF l.err # NoErr THEN Ret(ListV(<<>>), l.err, l.d)
        ELSE decodeTuple(l.d, l.val)

decodeLargeTuple(d) ==
    LET l == read32(d)
    IN  IF l.err # NoErr THEN Ret(ListV(<<>>), l.err, l.d)
        ELSE decodeTuple(l.d, CountOfBE(l.val))

\* decodeList with a fault: an empty list returns before its tail is read.
decodeList_EmptyEarly(d) ==
    LET l == read32(d)
        a == decodeArray(l.d, CountOfBE(l.val))
        t == read8(a.d)
    IN  IF l.err # NoErr THEN Ret(NilV, l.err, l.d)
        ELSE IF CountOfBE(l.val) = 0 THEN Ret(ListV(<<>>), NoErr, l.d)
        ELSE IF a.err # NoErr THEN Ret(NilV, a.err, a.d)
        ELSE IF t.err # NoErr THEN Ret(NilV, t.err, t.d)
        ELSE IF t.val # NIL_EXT THEN Ret(NilV, ErrTail, t.d)
        ELSE Ret(a.val, NoErr, t.d)

decodeList(d) ==
    LET l == read32(d)
        a == decodeArray(l.d, CountOfBE(l.val))
        t == read8(a.d)
    IN  IF l.err # NoErr THEN Ret(NilV, l.err, l.d)
        ELSE IF a.err # NoErr THEN Ret(NilV, a.err, a.d)
        ELSE IF t.err # NoErr THEN Ret(NilV, t.err, t.d)
        ELSE IF t.val # NIL_EXT THEN Ret(NilV, ErrTail, t.d)
        ELSE Ret(a.val, NoErr, t.d)

\* The loop of decodeMap: n entries left, m the map so far.
decodeMapLoop(d, n, m) ==
    IF n = 0 THEN Ret(MapV(m), NoErr, d)
    ELSE LET k == decode(d)
             v == decode(k.d)
             ks == keyToString(k.val)
         IN  IF k.err # NoErr THEN Ret(MapV(<<>>), k.err, k.d)
             ELSE IF v.err # NoErr THEN Ret(MapV(<<>>), v.err, v.d)
             ELSE IF ks.err # NoErr THEN Ret(MapV(<<>>), ks.err, v.d)
             ELSE decodeMapLoop(v.d, n - 1, MapPut(m, ks.s, v.val))

decodeMap(d) ==
    LET l == read32(d)
    IN  IF l.err # NoErr THEN Ret(MapV(<<>>), l.err, l.d)
        ELSE decodeMapLoop(l.d, CountOfBE(l.val), <<>>)

decodeCompressed(d) ==
    LET l == read32(d)
        size == CountOfBE(l.val)
        rest == Slice(l.d.data, l.d.offset, Len(l.d.data))
        z == ReadFullZlib(rest, size)
        u == unpack([l.d EXCEPT !.offset = @ + Len(z.out)], z.out)
    IN  IF l.err # NoErr THEN Ret(NilV, l.err, l.d)
        ELSE IF ~ZlibHeaderOk(rest) THEN Ret(NilV, ErrZlibReader, l.d)
        ELSE IF ~z.ok THEN Ret(NilV, ErrDecompress, l.d)
        ELSE IF u.err # NoErr THEN Ret(NilV, u.err, u.d)
        ELSE u

decode(d) ==
    LET t == read8(d)
        tag == t.val
    IN  IF t.err # NoErr THEN Ret(NilV, t.err, t.d)
        ELSE CASE tag = SMALL_INTEGER_EXT -> decodeSmallInteger(t.d)
               [] tag = INTEGER_EXT -> decodeInteger(t.d)
               [] tag = FLOAT_EXT -> decodeFloat(t.d)
               [] tag = NEW_FLOAT_EXT -> decodeNewFloat(t.d)
               [] tag = ATOM_EXT -> decodeAtom(t.d)
               [] tag = SMALL_ATOM_EXT -> decodeSmallAtom(t.d)
               [] tag = SMALL_TUPLE_EXT -> decodeSmallTuple(t.d)
               [] tag = LARGE_TUPLE_EXT -> decodeLargeTuple(t.d)
               [] tag = NIL_EXT -> decodeNil(t.d)
               [] tag = STRING_EXT -> decodeStringAsList(t.d)
               [] tag = LIST_EXT -> decodeList(t.d)
               [] tag = MAP_EXT -> decodeMap(t.d)
               [] tag = BINARY_EXT -> decodeBinaryAsString(t.d)
               [] tag = SMALL_BIG_EXT -> decodeSmallBig(t.d)
               [] tag = LARGE_BIG_EXT -> decodeLargeBig(t.d)
               [] tag = COMPRESSED -> decodeCompressed(t.d)
               [] OTHER -> Ret(NilV, ErrTag, t.d)

\* unpack with a fault: the buffer is bound before the version byte is checked.
unpack_BindFirst(d, bytes) ==
    LET b == [d EXCEPT !.data = IF bytes = <<>> THEN <<>> ELSE Tail(bytes)]
    IN  IF Len(bytes) = 0 \/ bytes[1] # FORMAT_VERSION THEN Ret(NilV, ErrVersion, b)
        ELSE LET r == decode(b)
             IN  IF IsPanic(r.err) THEN r ELSE Ret(r.val, r.err, reset(r.d))

\* unpack with a fault: bytes left over after the term are an error.
unpack_WholeBuffer(d, bytes) ==
    IF Len(bytes) = 0 \/ bytes[1] # FORMAT_VERSION THEN Ret(NilV, ErrVersion, d)
    ELSE LET r == decode([d EXCEPT !.data = Tail(bytes)])
         IN  IF IsPanic(r.err) THEN r
             ELSE IF r.err = NoErr /\ r.d.offset # Len(r.d.data)
                  THEN Ret(NilV, ErrTag, reset(r.d))
             ELSE Ret(r.val, r.err, reset(r.d))

\* Decoder.unpack on the decoder d.  A panic unwinds past the reset.
unpack(d, bytes) ==
    IF Len(bytes) = 0 \/ bytes[1] # FORMAT_VERSION THEN Ret(NilV, ErrVersion, d)
    ELSE LET r == decode([d EXCEPT !.data = Tail(bytes)])
         IN  IF IsPanic(r.err) THEN r ELSE Ret(r.val, r.err, reset(r.d))
\* ---------------------------------------------------------------- encoder
PanicUnsupported == "panic: Unsupported etf type"
PanicListTooLarge == "panic: List is too large"
PanicDictTooLarge == "panic: Dictionary has too many properties"
PanicExpectedString == "panic: expected string"

\* What an encoding call yields: the bytes, or the panic that ended it.
Out(b) == [out |-> b, err |-> NoErr]
Panicked(e) == [out |-> <<>>, err |-> e]

\* append(a, b...) where computing b may have panicked, or a before it.
Cat(a, b) ==
    IF a.err # NoErr THEN a
    ELSE IF b.err # NoErr THEN b
    ELSE Out(a.out \o b.out)

\* The orders in which a range over a map with the keys S may visit them.
Perms(S) ==
    {p \in [1..Cardinality(S) -> S] : \A i, j \in DOMAIN p : i # j => p[i] # p[j]}

AppendByte(b) == <<b>>

\* val is a number below 2^31 here: the length of a collection of the model.
AppendUint32(val) ==
    <<(val \div 16777216) % 256, (val \div 65536) % 256, (val \div 256) % 256, val % 256>>

\* AppendBinary with a fault: the length written in 2 bytes, as for tag 107.
AppendBinary_Len16(str) ==
    AppendByte(BINARY_EXT) \o <<(Len(str) \div 256) % 256, Len(str) % 256>> \o str

AppendBinary(str) == AppendByte(BINARY_EXT) \o AppendUint32(Len(str)) \o str

AppendFloat64(f) == f[2]

\* uint32(v) of an int32, big-endian.
AppendInt32(v) ==
    LET l == Uint64OfInt(v) IN <<l[4], l[3], l[2], l[1]>>

\* AppendInt with a fault: the small-integer range one too wide.
AppendInt_Upto256(v) ==
    IF v >= 0 /\ v <= 256 THEN AppendByte(SMALL_INTEGER_EXT) \o <<v % 256>>
    ELSE AppendByte(INTEGER_EXT) \o AppendInt32(v)

AppendInt(v) ==
    IF v >= 0 /\ v <= 255 THEN AppendByte(SMALL_INTEGER_EXT) \o <<v>>
    ELSE AppendByte(INTEGER_EXT) \o AppendInt32(v)

\* AppendIntOf64 with a fault: the small-integer test made on int32(v).
AppendIntOf64_Low32(l) ==
    IF l[1] <= 255 /\ l[2] = 0 /\ l[3] = 0 /\ l[4] = 0
    THEN AppendByte(SMALL_INTEGER_EXT) \o <<l[1]>>
    ELSE AppendByte(INTEGER_EXT) \o <<l[4], l[3], l[2], l[1]>>

\* AppendInt on an int64 given as the 8 limbs of uint64(v), least significant
\* first: v >= 0 && v <= 255, else int32(v) keeps the low 4 limbs.
AppendIntOf64(l) ==
    IF \A i \in 2..8 : l[i] = 0
    THEN AppendByte(SMALL_INTEGER_EXT) \o <<l[1]>>
    ELSE AppendByte(INTEGER_EXT) \o <<l[4], l[3], l[2], l[1]>>

AppendNil == <<SMALL_ATOM_EXT, 3, 110, 105, 108>>

AppendBool(v) ==
    IF v THEN <<SMALL_ATOM_EXT, 4, 116, 114, 117, 101>>
    ELSE <<SMALL_ATOM_EXT, 5, 102, 97, 108, 115, 101>>

\* length > math.MaxUint32-1, the length an int of 64 bits in 8 limbs.
TooLarge(length) ==
    \/ \E i \in 5..8 : length[i] # 0
    \/ \A i \in 1..4 : length[i] = 255

\* What is emitted ahead of a collection's elements, for a collection of the
\* given length: on the []any case of rawPack ("any"), on its reflected slice
\* or array case ("reflect"), in AppendMap ("map").  AppendUint32(uint32(length))
\* keeps the low 4 limbs.
Header(path, length) ==
    LET count == <<length[4], length[3], length[2], length[1]>>
    IN  CASE path = "any" -> Out(AppendByte(LIST_EXT) \o count)
          [] path = "reflect" ->
                IF IsZero(length) THEN Out(AppendByte(NIL_EXT))
                ELSE IF TooLarge(length) THEN Panicked(PanicListTooLarge)
                ELSE Out(AppendByte(LIST_EXT) \o count)
          [] path = "map" ->
                IF TooLarge(length) THEN Panicked(PanicDictTooLarge)
                ELSE Out(AppendByte(MAP_EXT) \o count)

RECURSIVE rawPack(_)
RECURSIVE PackElems(_, _)
RECURSIVE PackEntries(_, _, _)

\* The loop over a []any: the outcomes of packing v[i..] in order.
PackElems(v, i) ==
    IF i > Len(v) THEN {Out(<<>>)}
    ELSE {Cat(h, t) : h \in rawPack(v[i]), t \in PackElems(v, i + 1)}

\* The loop of AppendMap over m's keys in the order p, from p[i] on.
PackEntries(m, p, i) ==
    IF i > Len(p) THEN {Out(<<>>)}
    ELSE {Cat(Cat(Out(AppendBinary(p[i])), h), t) :
             h \in rawPack(m[p[i]]), t \in PackEntries(m, p, i + 1)}

AppendMap(m) ==
    {Cat(Header("map", LimbsOfNat(Cardinality(DOMAIN m), 8)), b) :
        b \in UNION {PackEntries(m, p, 1) : p \in Perms(DOMAIN m)}}

\* Encoder.rawPack of src/encoder.go: the set of outcomes, one for each order
\* in which the maps of value may be ranged over.  <<"int64", l>> is an int64 and
\* <<"int_64", l>> an int of 64 bits, each as the 8 limbs of uint64(v).  <<"slice", e>> is a slice
\* or array of another type than []any, <<"keymap", n>> a map of n entries
\* whose keys are no strings; a uint, int8, chan or func is of no case.
rawPack(v) ==
    CASE Kind(v) = "int" -> {Out(AppendInt(v[2]))}
      [] Kind(v) = "int32" -> {Out(AppendInt(v[2]))}
      [] Kind(v) = "int64" -> {Out(AppendIntOf64(v[2]))}
      [] Kind(v) = "int_64" -> {Out(AppendIntOf64(v[2]))}
      [] Kind(v) = "float64" ->
            {Out(AppendByte(NEW_FLOAT_EXT) \o AppendFloat64(v))}
      [] Kind(v) = "string" -> {Out(AppendBinary(v[2]))}
      [] Kind(v) = "bool" -> {Out(AppendBool(v[2]))}
      [] Kind(v) = "nil" -> {Out(AppendNil)}
      [] Kind(v) = "list" ->
            {Cat(Cat(Header("any", LimbsOfNat(Len(v[2]), 8)), b),
                 Out(AppendByte(NIL_EXT))) : b \in PackElems(v[2], 1)}
      [] Kind(v) = "map" -> AppendMap(v[2])
      [] Kind(v) = "keymap" ->
            IF v[2] = 0 THEN AppendMap(<<>>) ELSE {Panicked(PanicExpectedString)}
      [] Kind(v) = "slice" ->
            IF Len(v[2]) = 0 THEN {Header("reflect", LimbsOfNat(0, 8))}
            ELSE {Cat(Cat(Header("reflect", LimbsOfNat(Len(v[2]), 8)), b),
                      Out(AppendByte(NIL_EXT))) : b \in PackElems(v[2], 1)}
      [] OTHER -> {Panicked(PanicUnsupported)}

Pack(v) == {Cat(Out(<<FORMAT_VERSION>>), r) : r \in rawPack(v)}

\* ------------------------------------------- encoder of src/unnamed/part_000
RECURSIVE rawPack_part000(_)
RECURSIVE pack(_)
RECURSIVE PackElems_part000(_, _)
RECURSIVE PackEntries_part000(_, _, _)

\* The loop over a []any, which packs each element with pack.
PackElems_part000(v, i) ==
    IF i > Len(v) THEN {Out(<<>>)}
    ELSE {Cat(h, t) : h \in pack(v[i]), t \in PackElems_part000(v, i + 1)}

PackEntries_part000(m, p, i) ==
    IF i > Len(p) THEN {Out(<<>>)}
    ELSE {Cat(Cat(Out(AppendBinary(p[i])), h), t) :
             h \in rawPack_part000(m[p[i]]), t \in PackEntries_part000(m, p, i + 1)}

AppendMap_part000(m) ==
    {Cat(Out(AppendByte(MAP_EXT) \o AppendUint32(Cardinality(DOMAIN m))), b) :
        b \in UNION {PackEntries_part000(m, p, 1) : p \in Perms(DOMAIN m)}}

\* Its default branch prints "Unsupported type" and appends nothing.
rawPack_part000(v) ==
    CASE Kind(v) = "int" -> {Out(AppendInt(v[2]))}
      [] Kind(v) = "int32" -> {Out(AppendInt32(v[2]))}
      [] Kind(v) = "float64" ->
            {Out(AppendByte(NEW_FLOAT_EXT) \o AppendFloat64(v))}
      [] Kind(v) = "string" -> {Out(AppendBinary(v[2]))}
      [] Kind(v) = "bool" ->
            {Out(AppendBinary(IF v[2] THEN TextTrue ELSE TextFalse))}
      [] Kind(v) = "nil" -> {Out(AppendByte(MAP_EXT) \o AppendUint32(0))}
      [] Kind(v) = "list" ->
            {Cat(Cat(Out(AppendByte(LIST_EXT) \o AppendUint32(Len(v[2]))), b),
                 Out(AppendByte(NIL_EXT))) : b \in PackElems_part000(v[2], 1)}
      [] Kind(v) = "map" -> AppendMap_part000(v[2])
      [] OTHER -> {Out(<<>>)}

pack(v) == {Cat(Out(<<FORMAT_VERSION>>), r) : r \in rawPack_part000(v)}
\* ---------------------------------------------------------------- callers' inputs
\* The largest number of nodes (scalars and collections) of a packed value.
MaxNodes == 4
\* Every int of -IntSpan..IntSpan is packed, besides the 32-bit edges.
IntSpan == 260

Float15 == FloatV(<<63, 248, 0, 0, 0, 0, 0, 0>>)
FloatNeg2 == FloatV(<<192, 0, 0, 0, 0, 0, 0, 0>>)
FloatZero == FloatV(<<0, 0, 0, 0, 0, 0, 0, 0>>)

\* The i-th key of a packed map: "true", "", then a letter.
KeyOf(i) == IF i = 1 THEN TextTrue ELSE IF i = 2 THEN <<>> ELSE <<96 + i>>

MapOfSeq(e) ==
    [k \in {KeyOf(i) : i \in 1..Len(e)} |->
        e[CHOOSE i \in 1..Len(e) : KeyOf(i) = k]]

\* The scalars inside the collections that are packed.
InnerLeaves == {NilV, IntV(256), StringV(<<97>>)}

RECURSIVE Sized(_)
RECURSIVE SeqsTotal(_)
\* The sequences of values whose node counts add up to m.
SeqsTotal(m) ==
    IF m = 0 THEN {<<>>}
    ELSE UNION {{<<v>> \o t : v \in Sized(s), t \in SeqsTotal(m - s)} : s \in 1..m}

\* The values of exactly n nodes.
Sized(n) ==
    IF n = 1 THEN InnerLeaves \cup {ListV(<<>>), MapV(<<>>)}
    ELSE {ListV(e) : e \in SeqsTotal(n - 1)}
            \cup {MapV(MapOfSeq(e)) : e \in SeqsTotal(n - 1)}

Scalars ==
    {NilV, BoolV(TRUE), BoolV(FALSE), Float15, FloatNeg2, FloatZero,
     StringV(<<>>), StringV(<<97>>), StringV(TextTrue), StringV(TextNil),
     StringV(<<0, 255, 131>>)}
        \cup {IntV(n) : n \in (-IntSpan)..IntSpan}
        \cup {IntV(n) : n \in {65535, 65536, -65536, 16777216, 2147483647,
                               -2147483647, -2147483647 - 1}}

\* Collections of the scalars that InnerLeaves leaves out.
Mixed ==
    {ListV(<<BoolV(FALSE), Float15, IntV(-1), StringV(<<>>)>>),
     ListV(<<ListV(<<BoolV(TRUE)>>), MapV(MapOfSeq(<<FloatZero, IntV(255)>>))>>),
     MapV(MapOfSeq(<<BoolV(TRUE), ListV(<<FloatNeg2, StringV(TextNil)>>), IntV(0)>>))}

\* The supported values handed to the encoders.
Values == Scalars \cup Mixed \cup UNION {Sized(n) : n \in 1..MaxNodes}

\* zlib at level 0 of s: the header, one final stored block, the checksum.
Deflate(s) ==
    <<120, 1>> \o <<1, Len(s) % 256, Len(s) \div 256,
                    255 - (Len(s) % 256), 255 - (Len(s) \div 256)>>
        \o s \o Adler32(s)

\* The compressed envelope of the payload p.
Envelope(p) ==
    <<FORMAT_VERSION, COMPRESSED>> \o AppendUint32(Len(p)) \o Deflate(p)

\* ---------------------------------------------------------------- state machine
\* Two Etf instances besides the first, each with a Decoder of its own.
Insts == {1, 2}

\* The callers of those instances: caller 1 and caller 3 are two goroutines
\* that hold the first instance, caller 2 holds the second.
Callers == {1, 2, 3}

\* A caller has no Unpack call in progress.  In a call, mixed tells that
\* another call on the same Decoder was in progress at some time during it,
\* reads and decodes count its primitive reads and its calls of decode.
Idle ==
    [pc |-> "idle", bytes |-> <<>>, stack |-> <<>>, val |-> NilV, err |-> NoErr,
     mixed |-> FALSE, reads |-> 0, decodes |-> 0]

NoOrigin == [kind |-> "none"]
NoRet == [op |-> "none", val |-> NilV, err |-> NoErr]

Init ==
    /\ data = NewDecoder.data
    /\ offset = NewDecoder.offset
    /\ alive = TRUE
    /\ value = NilV
    /\ wire = <<>>
    /\ origin = NoOrigin
    /\ ret = NoRet
    /\ dec = [i \in Insts |-> NewDecoder]
    /\ calls = [i \in Callers |-> Idle]
    /\ last = [inst |-> 0, op |-> "none", n |-> 0, val |-> NilV, err |-> NoErr,
               before |-> NewDecoder]

\* Encoder.Pack of src/encoder.go on a supported value.
EncoderPack ==
    /\ alive
    /\ origin.kind = "none"
    /\ \E v \in Values : \E r \in Pack(v) :
        /\ value' = v
        /\ wire' = r.out
        /\ origin' = [kind |-> "Pack"]
        /\ ret' = [op |-> "Pack", val |-> NilV, err |-> r.err]
        /\ alive' = (r.err = NoErr)
    /\ UNCHANGED <<data, offset, dec, calls, last>>

\* Etf.Pack of src/main.go, which calls pack of src/unnamed/part_000.
EtfPack ==
    /\ alive
    /\ origin.kind = "none"
    /\ \E v \in Values : \E r \in pack(v) :
        /\ value' = v
        /\ wire' = r.out
        /\ origin' = [kind |-> "pack"]
        /\ ret' = [op |-> "pack", val |-> NilV, err |-> r.err]
        /\ alive' = (r.err = NoErr)
    /\ UNCHANGED <<data, offset, dec, calls, last>>

\* The caller compresses what Encoder.Pack gave it and wraps it in tag 80.
Compress ==
    /\ alive
    /\ origin.kind = "Pack"
    /\ wire' = Envelope(wire)
    /\ origin' = [kind |-> "Compressed"]
    /\ ret' = NoRet
    /\ UNCHANGED <<data, offset, alive, value, dec, calls, last>>

\* The caller's payload loses its version byte, or all its bytes.
BadVersion ==
    /\ alive
    /\ origin.kind = "Pack"
    /\ \/ wire' = <<>>
       \/ \E b \in {0, 130} : wire' = <<b>> \o Tail(wire)
       \/ wire' = Tail(wire)
    /\ origin' = [kind |-> "BadVersion"]
    /\ ret' = NoRet
    /\ UNCHANGED <<data, offset, alive, value, dec, calls, last>>

\* Etf.Unpack of src/main.go on the caller's payload.
EtfUnpack ==
    /\ alive
    /\ origin.kind # "none"
    /\ LET r == unpack([data |-> data, offset |-> offset], wire)
       IN  /\ ret' = [op |-> "Unpack", val |-> r.val, err |-> r.err]
           /\ data' = r.d.data
           /\ offset' = r.d.offset
           /\ alive' = ~IsPanic(r.err)
    /\ UNCHANGED <<value, wire, origin, dec, calls, last>>

\* The caller is done with the payload and the result; the instance lives on.
Release ==
    /\ alive
    /\ ret.op = "Unpack"
    /\ value' = NilV
    /\ wire' = <<>>
    /\ origin' = NoOrigin
    /\ ret' = NoRet
    /\ UNCHANGED <<data, offset, alive, dec, calls, last>>

Next == EncoderPack \/ EtfPack \/ Compress \/ BadVersion \/ EtfUnpack \/ Release

Spec == Init /\ [][Next]_vars
\* ---------------------------------------------------------------- crafted terms
\* The longest list a caller crafts.
MaxListLen == 3
\* The largest digit count a caller declares in one byte.
MaxDigitCount == 12

RECURSIVE Flatten(_)
Flatten(ss) == IF ss = <<>> THEN <<>> ELSE Head(ss) \o Flatten(Tail(ss))

\* The digits of the big-integer terms: every 0 to 8 digits of 0 and 255,
\* every 0 to 4 digits of 0, 1 and 128, and 4 digits on either side of bit 31.
BigDigits ==
    UNION {[1..n -> {0, 255}] : n \in 0..8}
        \cup UNION {[1..n -> {0, 1, 128}] : n \in 0..4}
        \cup {<<a, b, c, e>> : a \in {0, 255}, b \in {0, 255}, c \in {0, 255},
                               e \in {127, 128}}
        \cup {<<0, 0, 0, 0, 1>>, <<1, 0, 0, 0, 0, 0, 0, 128>>, <<0, 202, 154, 59, 0, 0, 0, 0>>}

\* A big-integer term: the tag, the digit count in 1 or 4 bytes, sign, digits.
BigTerm(tag, n, sign, digits) ==
    (IF tag = SMALL_BIG_EXT THEN <<tag, n>> ELSE <<tag>> \o AppendUint32(n))
        \o <<sign>> \o digits

\* The digit counts of 9 or more: [bytes after the tag].
WideCounts ==
    {[tag |-> SMALL_BIG_EXT, count |-> <<n>>] : n \in (9..MaxDigitCount) \cup {255}}
        \cup {[tag |-> LARGE_BIG_EXT, count |-> c] :
                c \in {<<0, 0, 0, 9>>, <<0, 0, 1, 0>>, <<0, 1, 0, 0>>, <<64, 0, 0, 0>>,
                       <<128, 0, 0, 0>>, <<255, 255, 255, 255>>}}

\* The elements of the crafted lists: 1, [], an empty list term, the atom "".
ElemTerms == {<<97, 1>>, <<106>>, <<108, 0, 0, 0, 0, 106>>, <<115, 0>>}

RECURSIVE DecDigits(_)
\* The decimal digits of n >= 0.
DecDigits(n) ==
    IF n < 10 THEN <<48 + n>> ELSE DecDigits(n \div 10) \o <<48 + (n % 10)>>

\* The decimal text of n > -2^31.
DecText(n) == IF n < 0 THEN <<45>> \o DecDigits(-n) ELSE DecDigits(n)

\* Key terms that decode to a number, each with the number's decimal text.
NumKeys ==
    {[term |-> <<SMALL_INTEGER_EXT, n>>, text |-> DecText(n)] : n \in {0, 7, 255}}
        \cup {[term |-> <<INTEGER_EXT>> \o AppendInt32(n), text |-> DecText(n)] :
                n \in {-5, 0, 7, 256, -2147483647}}
        \cup {[term |-> BigTerm(SMALL_BIG_EXT, 1, 0, <<7>>), text |-> <<55>>],
              [term |-> BigTerm(SMALL_BIG_EXT, 1, 1, <<5>>), text |-> <<45, 53>>],
              [term |-> BigTerm(LARGE_BIG_EXT, 2, 0, <<0, 1>>), text |-> <<50, 53, 54>>],
              [term |-> BigTerm(SMALL_BIG_EXT, 5, 0, <<0, 0, 0, 0, 1>>),
               text |-> <<52, 50, 57, 52, 57, 54, 55, 50, 57, 54>>],
              [term |-> BigTerm(SMALL_BIG_EXT, 5, 1, <<0, 0, 0, 0, 1>>),
               text |-> <<45, 52, 50, 57, 52, 57, 54, 55, 50, 57, 54>>]}

\* One valid term of every tag the decoder knows, some of them nested.
SampleTerms ==
    {<<97, 5>>,
     <<98, 255, 255, 255, 251>>,
     <<70, 63, 248, 0, 0, 0, 0, 0, 0>>,
     <<99, 49, 46, 53, 101, 43, 48, 48>> \o Zeros(24),
     <<100, 0, 2, 111, 107>>,
     <<115, 4, 116, 114, 117, 101>>,
     <<104, 2, 97, 1, 106>>,
     <<105, 0, 0, 0, 2, 115, 0, 104, 1, 97, 2>>,
     <<106>>,
     <<107, 0, 2, 104, 105>>,
     <<108, 0, 0, 0, 2, 97, 1, 109, 0, 0, 0, 1, 120, 106>>,
     <<108, 0, 0, 0, 1, 108, 0, 0, 0, 1, 100, 0, 1, 97, 106, 106>>,
     <<116, 0, 0, 0, 1, 109, 0, 0, 0, 1, 107, 108, 0, 0, 0, 1, 97, 2, 106>>,
     <<116, 0, 0, 0, 2, 115, 1, 97, 97, 1, 100, 0, 1, 98,
       116, 0, 0, 0, 1, 97, 9, 104, 1, 97, 3>>,
     <<109, 0, 0, 0, 3, 1, 2, 3>>,
     <<110, 2, 1, 0, 1>>,
     <<110, 8, 0, 255, 255, 255, 255, 255, 255, 255, 255>>,
     <<111, 0, 0, 0, 5, 0, 1, 2, 3, 4, 5>>}

\* p is a valid uncompressed payload: the version byte and exactly one term.
Valid(p) ==
    /\ Len(p) >= 1
    /\ p[1] = FORMAT_VERSION
    /\ LET r == decode([data |-> Tail(p), offset |-> 0])
       IN  r.err = NoErr /\ r.d.offset = Len(p) - 1

\* The caller holds a big-integer term of 0 to 8 digits.
CraftBig ==
    /\ alive
    /\ origin.kind = "none"
    /\ \E tag \in {SMALL_BIG_EXT, LARGE_BIG_EXT}, sign \in {0, 1}, digits \in BigDigits :
        /\ wire' = <<FORMAT_VERSION>> \o BigTerm(tag, Len(digits), sign, digits)
        /\ origin' = [kind |-> "Big", sign |-> sign, digits |-> digits]
    /\ ret' = NoRet
    /\ UNCHANGED <<data, offset, alive, value, dec, calls, last>>

\* The caller holds a big-integer term that declares 9 digits or more, with
\* its sign byte and none, one or nine of the digits.
CraftWideBig ==
    /\ alive
    /\ origin.kind = "none"
    /\ \E w \in WideCounts, sign \in {0, 1},
          digits \in {<<>>, <<1>>, <<1, 2, 3, 4, 5, 6, 7, 8, 9>>} :
        /\ wire' = <<FORMAT_VERSION, w.tag>> \o w.count \o <<sign>> \o digits
        /\ origin' = [kind |-> "WideBig", tag |-> w.tag, count |-> w.count]
    /\ ret' = NoRet
    /\ UNCHANGED <<data, offset, alive, value, dec, calls, last>>

\* The caller holds a list term of n elements and the byte tail after them.
CraftList ==
    /\ alive
    /\ origin.kind = "none"
    /\ \E n \in 0..MaxListLen : \E elems \in [1..n -> ElemTerms] :
       \E tail \in {NIL_EXT, 0, 97, 107, 108} :
        /\ wire' = <<FORMAT_VERSION, LIST_EXT>> \o AppendUint32(n)
                        \o Flatten(elems) \o <<tail>>
        /\ origin' = [kind |-> "List", n |-> n, tail |-> tail]
    /\ ret' = NoRet
    /\ UNCHANGED <<data, offset, alive, value, dec, calls, last>>

\* The caller holds a map term of one entry whose key term is a number.
CraftNumKeyMap ==
    /\ alive
    /\ origin.kind = "none"
    /\ \E k \in NumKeys :
        /\ wire' = <<FORMAT_VERSION, MAP_EXT>> \o AppendUint32(1) \o k.term \o <<97, 1>>
        /\ origin' = [kind |-> "NumKeyMap", text |-> k.text]
    /\ ret' = NoRet
    /\ UNCHANGED <<data, offset, alive, value, dec, calls, last>>

\* The caller holds one of the sample terms.
CraftTerm ==
    /\ alive
    /\ origin.kind = "none"
    /\ \E t \in SampleTerms : wire' = <<FORMAT_VERSION>> \o t
    /\ origin' = [kind |-> "Term"]
    /\ ret' = NoRet
    /\ UNCHANGED <<data, offset, alive, value, dec, calls, last>>

\* The caller's payload loses its last byte: first a valid payload, then
\* what is left of one, down to no bytes at all.
Truncate ==
    /\ alive
    /\ ret.op # "Unpack"
    /\ \/ origin.kind \in {"Pack", "Term", "List", "NumKeyMap"} /\ Valid(wire)
       \/ origin.kind = "Truncated" /\ wire # <<>>
    /\ wire' = SubSeq(wire, 1, Len(wire) - 1)
    /\ origin' = [kind |-> "Truncated"]
    /\ value' = NilV
    /\ ret' = NoRet
    /\ UNCHANGED <<data, offset, alive, dec, calls, last>>

\* Key terms of a shape that is no map key: the atoms "nil", "null" and "",
\* on both atom tags, an empty list, a list, a string-as-list, two tuples and
\* two maps.
BadKeys ==
    {<<115, 3, 110, 105, 108>>, <<100, 0, 4, 110, 117, 108, 108>>, <<115, 0>>,
     <<100, 0, 0>>, <<106>>, <<108, 0, 0, 0, 1, 97, 1, 106>>, <<107, 0, 1, 120>>,
     <<104, 0>>, <<105, 0, 0, 0, 1, 97, 2>>, <<116, 0, 0, 0, 0>>,
     <<116, 0, 0, 0, 1, 109, 0, 0, 0, 1, 97, 97, 3>>}

\* The texts carried by the crafted atom, binary and string terms.
Texts ==
    {<<>>, TextNil, TextNull, TextTrue, TextFalse,
     <<78, 105, 108>>, <<84, 82, 85, 69>>, <<110, 105, 108, 32>>, <<110, 117, 108>>,
     <<116, 114, 117, 101, 101>>, <<102, 97, 108, 115>>, <<111, 107>>, <<0>>,
     <<104, 105>>, <<255, 0, 131>>}

\* The caller holds a map term of one entry whose key term is no map key.
CraftBadKeyMap ==
    /\ alive
    /\ origin.kind = "none"
    /\ \E k \in BadKeys :
        /\ wire' = <<FORMAT_VERSION, MAP_EXT>> \o AppendUint32(1) \o k \o <<97, 1>>
        /\ origin' = [kind |-> "BadKeyMap", key |-> k]
    /\ ret' = NoRet
    /\ UNCHANGED <<data, offset, alive, value, dec, calls, last>>

\* The caller holds a term that carries a text: an atom (tag 100), a small
\* atom (115), a string-as-list (107) or a binary (109).
CraftText ==
    /\ alive
    /\ origin.kind = "none"
    /\ \E tag \in {ATOM_EXT, SMALL_ATOM_EXT, STRING_EXT, BINARY_EXT}, t \in Texts :
        /\ wire' = <<FORMAT_VERSION, tag>>
                      \o (IF tag = SMALL_ATOM_EXT THEN <<Len(t)>>
                          ELSE IF tag = BINARY_EXT THEN AppendUint32(Len(t))
                          ELSE <<0, Len(t)>>)
                      \o t
        /\ origin' = [kind |-> "Text", tag |-> tag, text |-> t]
    /\ ret' = NoRet
    /\ UNCHANGED <<data, offset, alive, value, dec, calls, last>>

NextTerms ==
    CraftBig \/ CraftWideBig \/ CraftList \/ CraftNumKeyMap \/ CraftBadKeyMap
        \/ CraftText \/ EtfUnpack \/ Release

\* The decoder on crafted terms.
SpecTerms == Init /\ [][NextTerms]_vars

NextTrunc ==
    EncoderPack \/ CraftTerm \/ CraftList \/ CraftNumKeyMap \/ Truncate
        \/ EtfUnpack \/ Release

\* The decoder on truncated payloads.
SpecTrunc == Init /\ [][NextTrunc]_vars

\* The most bytes added after a payload.
MaxTrail == 2

\* The bytes added after a payload: 0, the list tail, the version byte.
TrailBytes == {0, NIL_EXT, FORMAT_VERSION}

\* The caller's payload gains a byte at its end: first a valid payload, then
\* one that has gained bytes already.
Extend ==
    /\ alive
    /\ ret.op # "Unpack"
    /\ \/ /\ origin.kind \in {"Term", "List", "NumKeyMap"}
          /\ Valid(wire)
          /\ origin' = [kind |-> "Extended", base |-> wire]
       \/ /\ origin.kind = "Extended"
          /\ Len(wire) < Len(origin.base) + MaxTrail
          /\ origin' = origin
    /\ \E b \in TrailBytes : wire' = Append(wire, b)
    /\ value' = NilV
    /\ ret' = NoRet
    /\ UNCHANGED <<data, offset, alive, dec, calls, last>>

NextTrail ==
    CraftTerm \/ CraftList \/ CraftNumKeyMap \/ Extend \/ EtfUnpack \/ Release

\* The decoder on payloads followed by more bytes.
SpecTrail == Init /\ [][NextTrail]_vars

\* ---------------------------------------------------------------- encoder inputs
\* The elements of the packed sequences: nil, 1, "a", an empty []any and an
\* empty slice of another type.
SeqLeaves == {NilV, IntV(1), StringV(<<97>>), ListV(<<>>), <<"slice", <<>>>>}

\* The sequences handed to Pack: []any and slices or arrays of other types.
SeqShapes ==
    {<<kind, e>> : kind \in {"list", "slice"},
                   e \in UNION {[1..n -> SeqLeaves] : n \in 0..MaxListLen}}

\* Values of no case of rawPack, alone and inside each kind of collection.
Unsupported ==
    LET bare == {<<"uint", 1>>, <<"int8", 1>>, <<"chan">>, <<"func">>, <<"keymap", 1>>}
    IN  bare \cup {ListV(<<IntV(1), u>>) : u \in bare}
             \cup {<<"slice", <<u>>>> : u \in bare}
             \cup {MapV(MapOfSeq(<<u>>)) : u \in bare}

\* Lengths around the largest 4-byte count, in 8 limbs: 1, 2^32-2, 2^32-1,
\* 2^32, 2^32+1 and 2^62.
HugeLens ==
    {<<1, 0, 0, 0, 0, 0, 0, 0>>, <<254, 255, 255, 255, 0, 0, 0, 0>>,
     <<255, 255, 255, 255, 0, 0, 0, 0>>, <<0, 0, 0, 0, 1, 0, 0, 0>>,
     <<1, 0, 0, 0, 1, 0, 0, 0>>, <<0, 0, 0, 0, 0, 0, 0, 64>>}

\* Encoder.Pack on a sequence, or on a value it has no case for.
EncoderPackShape ==
    /\ alive
    /\ origin.kind = "none"
    /\ \E v \in SeqShapes \cup Unsupported : \E r \in Pack(v) :
        /\ value' = v
        /\ wire' = r.out
        /\ origin' = [kind |-> IF v \in Unsupported THEN "Unsupported" ELSE "Seq"]
        /\ ret' = [op |-> "Pack", val |-> NilV, err |-> r.err]
        /\ alive' = (r.err = NoErr)
    /\ UNCHANGED <<data, offset, dec, calls, last>>

\* Encoder.Pack on a collection of a length near 2^32, up to the bytes it
\* emits ahead of the first element: wire holds the version byte and them.
EncoderPackHuge ==
    /\ alive
    /\ origin.kind = "none"
    /\ \E path \in {"any", "reflect", "map"}, length \in HugeLens :
        LET r == Cat(Out(<<FORMAT_VERSION>>), Header(path, length))
        IN  /\ wire' = r.out
            /\ origin' = [kind |-> "Huge", path |-> path, length |-> length]
            /\ ret' = [op |-> "Pack", val |-> NilV, err |-> r.err]
            /\ alive' = (r.err = NoErr)
    /\ value' = NilV
    /\ UNCHANGED <<data, offset, dec, calls, last>>

NextEnc == EncoderPackShape \/ EncoderPackHuge

\* The encoder on sequences, unsupported values and huge collections.
SpecEnc == Init /\ [][NextEnc]_vars

\* The limbs of the 64-bit integers handed to Pack: every limb 0, 128 or 255,
\* and the values on either side of the 32-bit range.
WideInts ==
    [1..8 -> {0, 128, 255}]
        \cup {<<255, 255, 255, 127, 0, 0, 0, 0>>, <<0, 0, 0, 128, 0, 0, 0, 0>>,
              <<0, 0, 0, 128, 255, 255, 255, 255>>,
              <<255, 255, 255, 127, 255, 255, 255, 255>>,
              <<5, 0, 0, 0, 1, 0, 0, 0>>, <<0, 1, 0, 0, 0, 0, 0, 0>>,
              <<255, 255, 255, 255, 255, 255, 255, 127>>}

\* Encoder.Pack on an int64, or on an int of a build whose int has 64 bits.
EncoderPackWide ==
    /\ alive
    /\ origin.kind = "none"
    /\ \E type \in {"int64", "int_64"}, l \in WideInts : \E r \in Pack(<<type, l>>) :
        /\ value' = <<type, l>>
        /\ wire' = r.out
        /\ origin' = [kind |-> "Wide"]
        /\ ret' = [op |-> "Pack", val |-> NilV, err |-> r.err]
        /\ alive' = (r.err = NoErr)
    /\ UNCHANGED <<data, offset, dec, calls, last>>

NextWide == EncoderPackWide \/ EtfUnpack \/ Release

\* Encoder.Pack on 64-bit integers, then Unpack of what it gave.
SpecWide == Init /\ [][NextWide]_vars

\* ---------------------------------------------------------------- calls in steps
\* Unpack calls on separate instances, each run one statement on its Decoder
\* at a time: a primitive read, the inflation of decodeCompressed, the reset
\* of unpack.  What a call has yet to do is a stack of frames, the top first:
\* the frame of a read names what is read next, the frame of a tuple, list
\* or map holds what it has collected, the frame of an unpack waits to reset.

\* Cursor with a fault: every caller reads through the first Decoder.
Cursor_Shared(i) == 1

\* The Decoder that caller i reads through.
Cursor(i) == IF i = 3 THEN 1 ELSE i

\* The primitive read that the frame f is about to make: [op, n].
ReadOf(f) ==
    CASE f[1] \in {"tag", "smallint", "atomlen8", "tuplelen8", "tail", "strbyte",
                   "biglen8", "bigsign", "bigdigit"} -> [op |-> "read8", n |-> 1]
      [] f[1] \in {"atomlen16", "strlen"} -> [op |-> "read16", n |-> 2]
      [] f[1] \in {"integer", "tuplelen32", "listlen", "maplen", "binlen",
                   "biglen32", "size"} -> [op |-> "read32", n |-> 4]
      [] f[1] = "newfloat" -> [op |-> "read64", n |-> 8]
      [] f[1] = "float" -> [op |-> "readString", n |-> 31]
      [] f[1] \in {"atomtext", "bintext"} -> [op |-> "readString", n |-> f[2]]

\* The statement of the frame f run on the decoder d: [d: the decoder after
\* it, next: the frames that replace f, or none when f is complete with the
\* value v and the error e].
Advance(f, d) ==
    LET r8 == read8(d)
        r16 == read16(d)
        r32 == read32(d)
        n32 == CountOfBE(r32.val)
        Val(v, e, dd) == [d |-> dd, next |-> <<>>, v |-> v, e |-> e]
        Push(fr, dd) == [d |-> dd, next |-> fr, v |-> NilV, e |-> NoErr]
        Leaf(r) == Val(r.val, r.err, r.d)
        Array(n, tail, dd) ==
            IF n > 0 THEN Push(<< <<"tag">>, <<"array", n, <<>>, tail>> >>, dd)
            ELSE IF tail THEN Push(<< <<"tail", <<>>>> >>, dd)
            ELSE Val(ListV(<<>>), NoErr, dd)
        One(name) == Push(<< <<name>> >>, r8.d)
    IN  CASE f[1] = "tag" ->
              IF r8.err # NoErr THEN Val(NilV, r8.err, r8.d)
              ELSE CASE r8.val = SMALL_INTEGER_EXT -> One("smallint")
                     [] r8.val = INTEGER_EXT -> One("integer")
                     [] r8.val = FLOAT_EXT -> One("float")
                     [] r8.val = NEW_FLOAT_EXT -> One("newfloat")
                     [] r8.val = ATOM_EXT -> One("atomlen16")
                     [] r8.val = SMALL_ATOM_EXT -> One("atomlen8")
                     [] r8.val = SMALL_TUPLE_EXT -> One("tuplelen8")
                     [] r8.val = LARGE_TUPLE_EXT -> One("tuplelen32")
                     [] r8.val = NIL_EXT -> Leaf(decodeNil(r8.d))
                     [] r8.val = STRING_EXT -> One("strlen")
                     [] r8.val = LIST_EXT -> One("listlen")
                     [] r8.val = MAP_EXT -> One("maplen")
                     [] r8.val = BINARY_EXT -> One("binlen")
                     [] r8.val = SMALL_BIG_EXT -> One("biglen8")
                     [] r8.val = LARGE_BIG_EXT -> One("biglen32")
                     [] r8.val = COMPRESSED -> One("size")
                     [] OTHER -> Val(NilV, ErrTag, r8.d)
          [] f[1] = "smallint" -> Leaf(decodeSmallInteger(d))
          [] f[1] = "integer" -> Leaf(decodeInteger(d))
          [] f[1] = "float" -> Leaf(decodeFloat(d))
          [] f[1] = "newfloat" -> Leaf(decodeNewFloat(d))
          [] f[1] = "atomlen16" ->
              IF r16.err # NoErr THEN Val(NilV, r16.err, r16.d)
              ELSE Push(<< <<"atomtext", r16.val>> >>, r16.d)
          [] f[1] = "atomlen8" ->
              IF r8.err # NoErr THEN Val(NilV, r8.err, r8.d)
              ELSE Push(<< <<"atomtext", r8.val>> >>, r8.d)
          [] f[1] = "atomtext" ->
              LET t == readString(d, f[2])
              IN  IF t.err # NoErr THEN Val(NilV, t.err, t.d)
                  ELSE Val(processAtom(t.val), NoErr, t.d)
          [] f[1] = "binlen" ->
              IF r32.err # NoErr THEN Val(StringV(<<>>), r32.err, r32.d)
              ELSE Push(<< <<"bintext", n32>> >>, r32.d)
          [] f[1] = "bintext" ->
              LET t == readString(d, f[2])
              IN  IF t.err # NoErr THEN Val(StringV(<<>>), t.err, t.d)
                  ELSE Val(StringV(t.val), NoErr, t.d)
          [] f[1] = "tuplelen8" ->
              IF r8.err # NoErr THEN Val(ListV(<<>>), r8.err, r8.d)
              ELSE Array(r8.val, FALSE, r8.d)
          [] f[1] = "tuplelen32" ->
              IF r32.err # NoErr THEN Val(ListV(<<>>), r32.err, r32.d)
              ELSE Array(n32, FALSE, r32.d)
          [] f[1] = "listlen" ->
              IF r32.err # NoErr THEN Val(NilV, r32.err, r32.d)
              ELSE Array(n32, TRUE, r32.d)
          [] f[1] = "tail" ->
              IF r8.err # NoErr THEN Val(NilV, r8.err, r8.d)
              ELSE IF r8.val # NIL_EXT THEN Val(NilV, ErrTail, r8.d)
              ELSE Val(ListV(f[2]), NoErr, r8.d)
          [] f[1] = "maplen" ->
              IF r32.err # NoErr THEN Val(MapV(<<>>), r32.err, r32.d)
              ELSE IF n32 = 0 THEN Val(MapV(<<>>), NoErr, r32.d)
              ELSE Push(<< <<"tag">>, <<"map", n32, FALSE, NilV, <<>>>> >>, r32.d)
          [] f[1] = "strlen" ->
              IF r16.err # NoErr THEN Val(ListV(<<>>), r16.err, r16.d)
              ELSE IF r16.d.offset + r16.val > Len(r16.d.data)
                   THEN Val(ListV(<<>>), ErrStringAsList, r16.d)
              ELSE IF r16.val = 0 THEN Val(ListV(<<>>), NoErr, r16.d)
              ELSE Push(<< <<"strbyte", r16.val, <<>>>> >>, r16.d)
          [] f[1] = "strbyte" ->
              LET r == decodeSmallInteger(d)
              IN  IF r.err # NoErr THEN Val(ListV(<<>>), r.err, r.d)
                  ELSE IF f[2] = 1 THEN Val(ListV(Append(f[3], r.val)), NoErr, r.d)
                  ELSE Push(<< <<"strbyte", f[2] - 1, Append(f[3], r.val)>> >>, r.d)
          [] f[1] = "biglen8" ->
              IF r8.err # NoErr THEN Val(NilV, r8.err, r8.d)
              ELSE Push(<< <<"bigsign", r8.val>> >>, r8.d)
          [] f[1] = "biglen32" ->
              IF r32.err # NoErr THEN Val(NilV, r32.err, r32.d)
              ELSE Push(<< <<"bigsign", n32>> >>, r32.d)
          [] f[1] = "bigsign" ->
              IF r8.err # NoErr THEN Val(NilV, r8.err, r8.d)
              ELSE IF f[2] > 8 THEN Val(NilV, ErrBig, r8.d)
              ELSE IF f[2] = 0
                   THEN Val(decodeBig([data |-> <<r8.val>>, offset |-> 0], 0).val,
                            NoErr, r8.d)
              ELSE Push(<< <<"bigdigit", f[2], <<r8.val>>>> >>, r8.d)
          [] f[1] = "bigdigit" ->
              LET got == Append(f[3], r8.val)
              IN  IF r8.err # NoErr THEN Val(NilV, r8.err, r8.d)
                  ELSE IF Len(got) = f[2] + 1
                       THEN Val(decodeBig([data |-> got, offset |-> 0], f[2]).val,
                                NoErr, r8.d)
                  ELSE Push(<< <<"bigdigit", f[2], got>> >>, r8.d)
          [] f[1] = "size" ->
              IF r32.err # NoErr THEN Val(NilV, r32.err, r32.d)
              ELSE Push(<< <<"inflate", n32>> >>, r32.d)
          [] f[1] = "inflate" ->
              LET rest == Slice(d.data, d.offset, Len(d.data))
                  z == ReadFullZlib(rest, f[2])
                  adv == [d EXCEPT !.offset = @ + Len(z.out)]
              IN  IF d.offset > Len(d.data)
                  THEN Push(<< <<"panic", NilV, PanicSliceBounds>> >>, d)
                  ELSE IF ~ZlibHeaderOk(rest) THEN Val(NilV, ErrZlibReader, d)
                  ELSE IF ~z.ok THEN Val(NilV, ErrDecompress, d)
                  ELSE IF Len(z.out) = 0 \/ z.out[1] # FORMAT_VERSION
                       THEN Val(NilV, ErrVersion, adv)
                  ELSE Push(<< <<"tag">>, <<"unpack">> >>,
                            [adv EXCEPT !.data = Tail(z.out)])
          [] f[1] = "reset" -> Val(f[2], f[3], reset(d))

RECURSIVE Resume_ErrNoReset(_, _, _)
\* Resume with a fault: an unpack whose decode failed returns without the reset.
Resume_ErrNoReset(st, v, e) ==
    IF st = <<>> THEN << <<"done", v, e>> >>
    ELSE LET f == Head(st)
             rest == Tail(st)
         IN  CASE f[1] = "unpack" ->
                    IF e # NoErr THEN Resume_ErrNoReset(rest, v, e)
                    ELSE << <<"reset", v, e>> >> \o rest
               [] f[1] = "array" ->
                    IF e # NoErr
                    THEN Resume_ErrNoReset(rest, IF f[4] THEN NilV ELSE ListV(<<>>), e)
                    ELSE IF f[2] > 1
                         THEN << <<"tag">>, <<"array", f[2] - 1, Append(f[3], v), f[4]>> >>
                                \o rest
                    ELSE IF f[4] THEN << <<"tail", Append(f[3], v)>> >> \o rest
                    ELSE Resume_ErrNoReset(rest, ListV(Append(f[3], v)), NoErr)
               [] f[1] = "map" ->
                    LET ks == keyToString(f[4])
                        m == MapPut(f[5], ks.s, v)
                    IN  IF e # NoErr THEN Resume_ErrNoReset(rest, MapV(<<>>), e)
                        ELSE IF ~f[3]
                             THEN << <<"tag">>, <<"map", f[2], TRUE, v, f[5]>> >> \o rest
                        ELSE IF ks.err # NoErr THEN << <<"panic", NilV, ks.err>> >>
                        ELSE IF f[2] > 1
                             THEN << <<"tag">>, <<"map", f[2] - 1, FALSE, NilV, m>> >>
                                    \o rest
                        ELSE Resume_ErrNoReset(rest, MapV(m), NoErr)

RECURSIVE Resume(_, _, _)
\* The stack after the value v, or the error e, is handed to the frames st
\* that wait for it.  Its top is then the next statement to run, or "done"
\* with the call's result, or "panic".
Resume(st, v, e) ==
    IF st = <<>> THEN << <<"done", v, e>> >>
    ELSE LET f == Head(st)
             rest == Tail(st)
         IN  CASE f[1] = "unpack" -> << <<"reset", v, e>> >> \o rest
               [] f[1] = "array" ->
                    IF e # NoErr
                    THEN Resume(rest, IF f[4] THEN NilV ELSE ListV(<<>>), e)
                    ELSE IF f[2] > 1
                         THEN << <<"tag">>, <<"array", f[2] - 1, Append(f[3], v), f[4]>> >>
                                \o rest
                    ELSE IF f[4] THEN << <<"tail", Append(f[3], v)>> >> \o rest
                    ELSE Resume(rest, ListV(Append(f[3], v)), NoErr)
               [] f[1] = "map" ->
                    LET ks == keyToString(f[4])
                        m == MapPut(f[5], ks.s, v)
                    IN  IF e # NoErr THEN Resume(rest, MapV(<<>>), e)
                        ELSE IF ~f[3]
                             THEN << <<"tag">>, <<"map", f[2], TRUE, v, f[5]>> >> \o rest
                        ELSE IF ks.err # NoErr THEN << <<"panic", NilV, ks.err>> >>
                        ELSE IF f[2] > 1
                             THEN << <<"tag">>, <<"map", f[2] - 1, FALSE, NilV, m>> >>
                                    \o rest
                        ELSE Resume(rest, MapV(m), NoErr)

\* The payloads of the calls run in steps: terms of every tag, a truncated
\* one, the compressed envelope of nil, a list of a compressed nil and 1, a
\* map with a nil key, a tuple, a list, a map and a big integer that declare
\* far more than they hold, a wrong version byte, no bytes.
StepPayloads ==
    {<<131, 97, 5>>,
     <<131, 108, 0, 0, 0, 2, 98, 255, 255, 255, 251, 109, 0, 0, 0, 1, 120, 106>>,
     <<131, 116, 0, 0, 0, 1, 100, 0, 1, 97, 70, 63, 248, 0, 0, 0, 0, 0, 0>>,
     <<131, 104, 2, 107, 0, 1, 104, 110, 1, 1, 5>>,
     <<131, 99, 49, 46, 53>> \o Zeros(28),
     <<131, 105, 0, 0, 0, 1, 111, 0, 0, 0, 5, 0, 0, 0, 0, 0, 1>>,
     <<131, 108, 0, 0, 0, 1, 115, 4, 116, 114>>,
     <<131, 116, 0, 0, 0, 1, 115, 3, 110, 105, 108, 97, 1>>,
     Envelope(<<131, 115, 3, 110, 105, 108>>),
     <<131, 108, 0, 0, 0, 2, 80, 0, 0, 0, 6>>
        \o Deflate(<<131, 115, 3, 110, 105, 108>>) \o <<97, 1, 106>>,
     <<131, 105, 255, 255, 255, 255, 97, 1, 97, 2>>,
     <<131, 108, 64, 0, 0, 0, 106, 106>>,
     <<131, 116, 128, 0, 0, 0, 97, 1, 106, 97>>,
     <<131, 110, 255, 0, 1, 2>>,
     <<131, 1>>, <<130, 97, 5>>, <<>>}

\* The call of caller i has run the statement of the frame f, which left
\* its Decoder as d and its stack as st.
Settle(i, f, d, st) ==
    LET c == [calls[i] EXCEPT
                !.reads = @ + (IF f[1] \in {"inflate", "reset"} THEN 0 ELSE 1),
                !.decodes = @ + (IF f[1] = "tag" THEN 1 ELSE 0)]
    IN  /\ dec' = [dec EXCEPT ![Cursor(i)] = d]
        /\ calls' = [calls EXCEPT ![i] =
                        IF Head(st)[1] \in {"done", "panic"}
                        THEN [c EXCEPT !.pc = "done", !.stack = <<>>,
                                       !.val = Head(st)[2], !.err = Head(st)[3]]
                        ELSE [c EXCEPT !.stack = st]]
        /\ alive' = (Head(st)[1] # "panic")

\* Unpack is called by caller i: the version check and d.data = data[1:].
\* A call in progress on the same Decoder makes both calls mixed.
Begin(i) ==
    /\ alive
    /\ calls[i].pc = "idle"
    /\ \E p \in StepPayloads :
        LET others == {j \in Callers \ {i} : Cursor(j) = Cursor(i) /\ calls[j].pc = "run"}
            bad == Len(p) = 0 \/ p[1] # FORMAT_VERSION
            c == IF bad
                 THEN [Idle EXCEPT !.pc = "done", !.bytes = p, !.err = ErrVersion,
                                   !.mixed = others # {}]
                 ELSE [Idle EXCEPT !.pc = "run", !.bytes = p, !.mixed = others # {},
                                   !.stack = << <<"tag">>, <<"unpack">> >>]
        IN  /\ calls' = [j \in Callers |->
                            IF j = i THEN c
                            ELSE IF j \in others THEN [calls[j] EXCEPT !.mixed = TRUE]
                            ELSE calls[j]]
            /\ dec' = IF bad THEN dec ELSE [dec EXCEPT ![Cursor(i)].data = Tail(p)]
    /\ last' = [inst |-> i, op |-> "begin", n |-> 0, val |-> NilV, err |-> NoErr,
                before |-> dec[Cursor(i)]]
    /\ UNCHANGED <<data, offset, alive, value, wire, origin, ret>>

\* The call of caller i makes its next primitive read.
ReadStep(i) ==
    /\ alive
    /\ calls[i].pc = "run"
    /\ Head(calls[i].stack)[1] \notin {"inflate", "reset"}
    /\ LET f == Head(calls[i].stack)
           d == dec[Cursor(i)]
           a == Advance(f, d)
           r == CASE ReadOf(f).op = "read8" -> read8(d)
                  [] ReadOf(f).op = "read16" -> read16(d)
                  [] ReadOf(f).op = "read32" -> read32(d)
                  [] ReadOf(f).op = "read64" -> read64(d)
                  [] ReadOf(f).op = "readString" -> readString(d, ReadOf(f).n)
       IN  /\ Settle(i, f, a.d,
                     IF a.next # <<>> THEN a.next \o Tail(calls[i].stack)
                     ELSE Resume(Tail(calls[i].stack), a.v, a.e))
           /\ last' = [inst |-> i, op |-> ReadOf(f).op, n |-> ReadOf(f).n,
                       val |-> r.val, err |-> r.err, before |-> d]
    /\ UNCHANGED <<data, offset, value, wire, origin, ret>>

\* decodeCompressed in the call of caller i inflates, moves the offset and
\* calls unpack on the inflated bytes, up to its d.data = data[1:].
InflateStep(i) ==
    /\ alive
    /\ calls[i].pc = "run"
    /\ Head(calls[i].stack)[1] = "inflate"
    /\ LET f == Head(calls[i].stack)
           d == dec[Cursor(i)]
           a == Advance(f, d)
       IN  /\ Settle(i, f, a.d,
                     IF a.next # <<>> THEN a.next \o Tail(calls[i].stack)
                     ELSE Resume(Tail(calls[i].stack), a.v, a.e))
           /\ last' = [inst |-> i, op |-> "inflate", n |-> f[2],
                       val |-> ReadFullZlib(Slice(d.data, d.offset, Len(d.data)), f[2]).out,
                       err |-> a.e, before |-> d]
    /\ UNCHANGED <<data, offset, value, wire, origin, ret>>

\* An unpack in the call of caller i resets the Decoder and returns.
ResetStep(i) ==
    /\ alive
    /\ calls[i].pc = "run"
    /\ Head(calls[i].stack)[1] = "reset"
    /\ LET f == Head(calls[i].stack)
           d == dec[Cursor(i)]
           a == Advance(f, d)
       IN  /\ Settle(i, f, a.d, Resume(Tail(calls[i].stack), a.v, a.e))
           /\ last' = [inst |-> i, op |-> "reset", n |-> 0, val |-> NilV,
                       err |-> NoErr, before |-> d]
    /\ UNCHANGED <<data, offset, value, wire, origin, ret>>

\* Caller i takes the result of its call.
Return(i) ==
    /\ alive
    /\ calls[i].pc = "done"
    /\ calls' = [calls EXCEPT ![i] = Idle]
    /\ UNCHANGED <<data, offset, alive, value, wire, origin, ret, dec, last>>

\* Pack is called on the Encoder that the instances share: it has no fields.
PackStep ==
    /\ alive
    /\ \E v \in {NilV, IntV(256), ListV(<<StringV(<<97>>)>>)} : \E r \in Pack(v) :
        last' = [inst |-> 0, op |-> "Pack", n |-> 0, val |-> r.out, err |-> r.err,
                 before |-> v]
    /\ UNCHANGED <<data, offset, alive, value, wire, origin, ret, dec, calls>>

NextSteps ==
    \/ \E i \in Insts : Begin(i) \/ ReadStep(i) \/ InflateStep(i) \/ ResetStep(i)
                            \/ Return(i)
    \/ PackStep

\* Unpack calls on separate instances, interleaved statement by statement.
SpecSteps == Init /\ [][NextSteps]_vars

NextShared ==
    \E i \in {1, 3} : Begin(i) \/ ReadStep(i) \/ InflateStep(i) \/ ResetStep(i)

\* One Unpack call of each of the two callers of the first instance, one
\* after the other or interleaved statement by statement.
SpecShared == Init /\ [][NextShared]_vars

\* ---------------------------------------------------------------- claims
RECURSIVE ValEq(_, _)
\* a and b are the same value: integers by their number whatever their width,
\* sequences element by element, maps key by key.
ValEq(a, b) ==
    IF Kind(a) \in {"int", "int32"} /\ Kind(b) \in {"int", "int32"} THEN a[2] = b[2]
    ELSE IF Kind(a) # Kind(b) THEN FALSE
    ELSE IF Kind(a) = "list"
         THEN /\ Len(a[2]) = Len(b[2])
              /\ \A i \in 1..Len(a[2]) : ValEq(a[2][i], b[2][i])
    ELSE IF Kind(a) = "map"
         THEN /\ DOMAIN a[2] = DOMAIN b[2]
              /\ \A k \in DOMAIN a[2] : ValEq(a[2][k], b[2][k])
    ELSE a = b

\* b is exactly one wire term, as the decoder reads terms.
OneTerm(b) ==
    LET r == decode([data |-> b, offset |-> 0])
    IN  r.err = NoErr /\ r.d.offset = Len(b)

\* b is the 4-byte big-endian two's complement of v.
TwosComplement32(b, v) ==
    /\ Len(b) = 4
    /\ \A i \in 1..4 : b[i] \in Byte
    /\ IF v >= 0
       THEN b[1] < 128 /\ v = ((b[1] * 256 + b[2]) * 256 + b[3]) * 256 + b[4]
       ELSE b[1] >= 128
            /\ v = (((b[1] - 256) * 256 + b[2]) * 256 + b[3]) * 256 + b[4]

\* C1: Unpack of what Encoder.Pack gave for a supported value returns no error
\* and a value equal to the packed one, whatever order Pack ranged over the
\* maps in.
C1_RoundTrip ==
    (ret.op = "Unpack" /\ origin.kind = "Pack")
        => (ret.err = NoErr /\ ValEq(ret.val, value))

C1_Witness ==
    /\ ret.op = "Unpack"
    /\ origin.kind = "Pack"
    /\ ret.err = NoErr
    /\ Kind(value) = "map"
    /\ Cardinality(DOMAIN value[2]) = 2
    /\ \E k \in DOMAIN value[2] : Kind(value[2][k]) = "list" /\ Len(value[2][k][2]) = 1

\* C2: Unpack of the compressed envelope [131, 80, len, zlib(Pack(v))] returns
\* no error and a value equal to v.
C2_CompressedRoundTrip ==
    (ret.op = "Unpack" /\ origin.kind = "Compressed")
        => (ret.err = NoErr /\ ValEq(ret.val, value))

\* C5: what a top-level call of either encoder returns is the byte 131 followed
\* by exactly one wire term, so that no nested element carries a version byte.
C5_PackFraming ==
    (ret.op \in {"Pack", "pack"})
        => (Len(wire) >= 1 /\ wire[1] = FORMAT_VERSION /\ OneTerm(Tail(wire)))

\* C6: Unpack of an empty input, or of one whose byte 0 is not 131, returns
\* the format-version error and leaves the decoder's data and offset as they
\* were, for the call on the instance and for a call made in mid-decode.
C6_UnpackFraming ==
    [][(ret' # ret /\ ret'.op = "Unpack"
            /\ (wire = <<>> \/ wire[1] # FORMAT_VERSION))
        => /\ ret'.err = ErrVersion
           /\ data' = data
           /\ offset' = offset
           /\ \A k \in 0..Len(wire) :
                LET d == [data |-> wire, offset |-> k]
                IN  unpack(d, wire) = Ret(NilV, ErrVersion, d)]_vars

C6_Witness ==
    /\ ret.op = "Unpack"
    /\ origin.kind = "BadVersion"
    /\ wire # <<>>
    /\ wire[1] # FORMAT_VERSION
    /\ ret.err = ErrVersion

\* C7: Encoder.Pack of an int v gives [131, 97, v] exactly when 0 <= v <= 255,
\* and otherwise [131, 98] followed by v as 4-byte big-endian two's complement.
C7_IntegerTag ==
    (ret.op = "Pack" /\ Kind(value) = "int")
        => IF value[2] >= 0 /\ value[2] <= 255
           THEN wire = <<FORMAT_VERSION, SMALL_INTEGER_EXT, value[2]>>
           ELSE /\ Len(wire) = 6
                /\ SubSeq(wire, 1, 2) = <<FORMAT_VERSION, INTEGER_EXT>>
                /\ TwosComplement32(SubSeq(wire, 3, 6), value[2])

C7_Witness ==
    /\ ret.op = "Pack"
    /\ value = IntV(256)
    /\ wire = <<FORMAT_VERSION, INTEGER_EXT, 0, 0, 1, 0>>

\* A returned value is not a partly filled container.
NoPartial(v) == Kind(v) \in {"list", "map"} => v = ListV(<<>>) \/ v = MapV(<<>>)

\* C3 as stated: Unpack of the first k bytes of a valid payload, for every
\* k from 0 to one less than its length, returns an out-of-bounds read error
\* and no partly filled list.
C3_TruncationAnyPrefix ==
    (ret.op = "Unpack" /\ origin.kind = "Truncated")
        => (ret.err \in BoundsErrors /\ NoPartial(ret.val))

\* C3: Unpack of the first k bytes of a valid payload returns an out-of-bounds
\* read error for every k from 1 to one less than its length and the
\* format-version error for k = 0; it never panics and never returns a partly
\* filled list.
C3_Truncation ==
    (ret.op = "Unpack" /\ origin.kind = "Truncated")
        => /\ alive
           /\ IF wire = <<>> THEN ret.err = ErrVersion ELSE ret.err \in BoundsErrors
           /\ NoPartial(ret.val)

C3_Witness ==
    /\ ret.op = "Unpack"
    /\ origin.kind = "Truncated"
    /\ Len(wire) >= 5
    /\ wire[2] = SMALL_TUPLE_EXT
    /\ ret.err = ErrRead8

\* C4: a list term whose byte after the elements is not 106 returns the
\* list-tail error for every element count, 0 included; with 106 there it
\* decodes to a sequence of exactly the declared number of elements, the
\* empty sequence for count 0, also when an element is itself an empty list.
C4_ListTail ==
    (ret.op = "Unpack" /\ origin.kind = "List")
        => IF origin.tail # NIL_EXT
           THEN ret.err = ErrTail /\ ret.val = NilV
           ELSE /\ ret.err = NoErr
                /\ Kind(ret.val) = "list"
                /\ Len(ret.val[2]) = origin.n
                /\ (origin.n = 0 => ret.val = ListV(<<>>))

C4_Witness ==
    /\ ret.op = "Unpack"
    /\ origin.kind = "List"
    /\ origin.n = 0
    /\ origin.tail # NIL_EXT
    /\ ret.err = ErrTail

\* v * 10 + c on little-endian base-256 limbs, the width kept.
RECURSIVE MulAdd10(_, _)
MulAdd10(v, c) ==
    IF v = <<>> THEN <<>>
    ELSE <<(Head(v) * 10 + c) % 256>> \o MulAdd10(Tail(v), (Head(v) * 10 + c) \div 256)

\* The number a decimal text denotes, on 9 limbs, from the limbs acc.
RECURSIVE ParseDec(_, _)
ParseDec(t, acc) ==
    IF t = <<>> THEN acc ELSE ParseDec(Tail(t), MulAdd10(acc, Head(t) - 48))

\* t is the decimal text of the magnitude mag (8 limbs), with no padding.
CanonDec(t, mag) ==
    /\ t # <<>>
    /\ \A i \in 1..Len(t) : t[i] \in 48..57
    /\ (Len(t) > 1 => t[1] # 48)
    /\ Len(t) <= 20
    /\ ParseDec(t, Zeros(9)) = mag \o <<0>>

\* The decoded value v is the signed number of the sign byte and the digits.
Denotes(v, sign, digits) ==
    LET mag == digits \o Zeros(8 - Len(digits))
        neg == sign # 0 /\ ~IsZero(mag)
    IN  CASE Kind(v) = "uint32" -> ~neg /\ v[2] \o Zeros(4) = mag
          [] Kind(v) = "int32" ->
                /\ v[2] >= -2147483647
                /\ (neg <=> v[2] < 0)
                /\ LimbsOfNat(IF v[2] < 0 THEN -v[2] ELSE v[2], 8) = mag
          [] Kind(v) = "string" ->
                IF neg THEN v[2] # <<>> /\ v[2][1] = 45 /\ CanonDec(Tail(v[2]), mag)
                ELSE CanonDec(v[2], mag)
          [] OTHER -> FALSE

\* C8 as stated: a big-integer term of 0 to 8 digits decodes to the signed
\* number its sign byte and little-endian digits denote: an integer when it
\* fits 32 bits, else its decimal text without padding.
C8_BigValue ==
    (ret.op = "Unpack" /\ origin.kind = "Big")
        => (ret.err = NoErr /\ Denotes(ret.val, origin.sign, origin.digits))

\* C9: a big-integer term that declares 9 digits or more, its sign byte
\* present, returns the magnitude error and no value.
C9_BigTooWide ==
    (ret.op = "Unpack" /\ origin.kind = "WideBig")
        => (ret.err = ErrBig /\ ret.val = NilV)

C9_Witness ==
    /\ ret.op = "Unpack"
    /\ origin.kind = "WideBig"
    /\ origin.count = <<9>>
    /\ Len(wire) = 13
    /\ ret.err = ErrBig

\* C10 as stated: a map entry whose key term decodes to a number is returned
\* under the decimal text of that number.
C10_NumericKey ==
    (ret.op = "Unpack" /\ origin.kind = "NumKeyMap")
        => (ret.err = NoErr /\ ret.val = MapV(MapPut(<<>>, origin.text, IntV(1))))

\* C11 as stated: Unpack of a map whose key term is an atom that classifies
\* to null, a list, a tuple or a map returns an error to its caller; it does
\* not panic and stores nothing under a key made from a type name.
C11_UnsupportedKey ==
    (ret.op = "Unpack" /\ origin.kind = "BadKeyMap")
        => (alive /\ ret.err # NoErr /\ ~IsPanic(ret.err) /\ NoPartial(ret.val))

\* C15 as stated: a string-as-list term (tag 107) and a binary term (tag 109)
\* that carry the same bytes both decode to the string of exactly those
\* bytes.
C15_StringTerms ==
    (ret.op = "Unpack" /\ origin.kind = "Text"
        /\ origin.tag \in {STRING_EXT, BINARY_EXT})
        => (ret.err = NoErr /\ ret.val = StringV(origin.text))

\* C16: an atom or small atom decodes to null when its text is empty, "nil"
\* or "null", to the boolean when it is exactly "true" or "false", and to
\* the text as a string otherwise; a binary with the same text always
\* decodes to the string.
C16_AtomClass ==
    (ret.op = "Unpack" /\ origin.kind = "Text" /\ origin.tag # STRING_EXT)
        => /\ ret.err = NoErr
           /\ ret.val =
                IF origin.tag = BINARY_EXT THEN StringV(origin.text)
                ELSE IF origin.text \in {<<>>, <<110, 105, 108>>, <<110, 117, 108, 108>>}
                     THEN NilV
                ELSE IF origin.text = <<116, 114, 117, 101>> THEN BoolV(TRUE)
                ELSE IF origin.text = <<102, 97, 108, 115, 101>> THEN BoolV(FALSE)
                ELSE StringV(origin.text)

C16_Witness ==
    /\ ret.op = "Unpack"
    /\ origin.kind = "Text"
    /\ origin.tag = ATOM_EXT
    /\ origin.text = <<110, 117, 108, 108>>
    /\ wire = <<131, 100, 0, 4, 110, 117, 108, 108>>
    /\ ret.val = NilV

\* C17 as stated: with either encoder, Pack of null gives an atom term that
\* Unpack decodes to null, and Pack of true or false gives the atom "true"
\* or "false" that Unpack decodes to the same boolean.
C17_NullBoolAtoms ==
    (ret.op = "Unpack" /\ origin.kind \in {"Pack", "pack"}
        /\ value \in {NilV, BoolV(TRUE), BoolV(FALSE)})
        => /\ wire[2] \in {ATOM_EXT, SMALL_ATOM_EXT}
           /\ (value = BoolV(TRUE) => wire = <<131, 115, 4, 116, 114, 117, 101>>
                                        \/ wire = <<131, 100, 0, 4, 116, 114, 117, 101>>)
           /\ (value = BoolV(FALSE) => wire = <<131, 115, 5, 102, 97, 108, 115, 101>>
                                        \/ wire = <<131, 100, 0, 5, 102, 97, 108, 115, 101>>)
           /\ ret.err = NoErr
           /\ ret.val = value

\* C12 as stated: Pack of a value of unsupported shape, or of a collection
\* that contains one, reports a failure to its caller and emits no bytes;
\* the call returns rather than aborting.
C12_EncoderFailure ==
    (ret.op = "Pack" /\ origin.kind = "Unsupported")
        => (alive /\ ret.err # NoErr /\ wire = <<>>)

\* C13 as stated: on each encoding path of a sequence or a mapping, a length
\* that does not fit the 4-byte count makes the encoding fail, the count
\* written is never the length mod 2^32, and a length that fits is accepted.
C13_SizeGuard ==
    (ret.op = "Pack" /\ origin.kind = "Huge")
        => IF \A i \in 5..8 : origin.length[i] = 0
           THEN /\ ret.err = NoErr
                /\ wire = <<131, IF origin.path = "map" THEN 116 ELSE 108,
                            origin.length[4], origin.length[3],
                            origin.length[2], origin.length[1]>>
           ELSE ret.err # NoErr /\ wire = <<>>

\* The term C14 expects of an element of the packed sequences.
ElemTerm(v) ==
    CASE v = NilV -> <<115, 3, 110, 105, 108>>
      [] v = IntV(1) -> <<97, 1>>
      [] v = StringV(<<97>>) -> <<109, 0, 0, 0, 1, 97>>
      [] OTHER -> <<106>>

\* C14 as stated: Pack of an empty sequence, a []any or a slice or array of
\* another type, is the byte 106 alone; Pack of a sequence of n > 0 elements
\* is tag 108, the 4-byte count n, the elements in order, then 106.
C14_EmptySequence ==
    (ret.op = "Pack" /\ origin.kind = "Seq")
        => wire = <<131>> \o
                (IF value[2] = <<>> THEN <<106>>
                 ELSE <<108, 0, 0, 0, Len(value[2])>>
                        \o Flatten([i \in 1..Len(value[2]) |-> ElemTerm(value[2][i])])
                        \o <<106>>)

\* C18: when Unpack calls on separate Decoder instances and Pack calls are
\* interleaved in any order, read by read, every call returns the result it
\* returns when it runs alone on a fresh instance.
C18_IndependentInstances ==
    /\ \A i \in Insts :
          calls[i].pc = "done" =>
              LET u == unpack(NewDecoder, calls[i].bytes)
              IN  /\ calls[i].err = u.err
                  /\ (~IsPanic(u.err) => calls[i].val = u.val)
    /\ (last.op = "Pack" => [out |-> last.val, err |-> last.err] \in Pack(last.before))

C18_Witness ==
    /\ calls[1].pc = "done"
    /\ calls[1].err = NoErr
    /\ Kind(calls[1].val) = "list"
    /\ Len(calls[1].val[2]) = 2
    /\ calls[2].pc = "run"
    /\ Len(calls[2].stack) >= 3
    /\ dec[2].offset >= 5

\* C19: every primitive read (read8, read16, read32, read64, readString(n))
\* either succeeds, returning the bytes at the old offset and advancing the
\* offset by exactly its width with the data unchanged, or fails with its
\* out-of-bounds error and leaves offset and data unchanged; after every
\* primitive read 0 <= offset <= len(data).
C19_CursorReads ==
    last.op \in {"read8", "read16", "read32", "read64", "readString"} =>
        LET b == last.before
            a == dec[Cursor(last.inst)]
            w == CASE last.op = "read8" -> 1
                   [] last.op = "read16" -> 2
                   [] last.op = "read32" -> 4
                   [] last.op = "read64" -> 8
                   [] last.op = "readString" -> last.n
            bytes == Slice(b.data, b.offset, b.offset + w)
        IN  /\ \/ /\ last.err = NoErr
                  /\ b.offset + w <= Len(b.data)
                  /\ a = [b EXCEPT !.offset = @ + w]
                  /\ last.val = CASE last.op = "read8" -> bytes[1]
                                  [] last.op = "read16" -> bytes[1] * 256 + bytes[2]
                                  [] OTHER -> bytes
               \/ /\ last.err \in {ErrRead8, ErrRead16, ErrRead32, ErrRead64,
                                   ErrReadString}
                  /\ a = b
            /\ 0 <= a.offset
            /\ a.offset <= Len(a.data)

\* C20: the bytes inflated from a compressed term (tag 80) are decoded as a
\* new stream from their own offset 0; when the compressed term has been
\* decoded the Decoder still reads the outer buffer, at an offset within it;
\* and the list of a compressed nil and 1 decodes to [nil, 1].
C20_CompressedCursor ==
    \A i \in Insts :
        /\ (last.inst = i /\ last.op = "inflate" /\ last.err = NoErr
                => dec[Cursor(i)].offset = 0)
        /\ (last.inst = i /\ last.op = "reset" /\ calls[i].pc = "run"
                => /\ dec[Cursor(i)].data = Tail(calls[i].bytes)
                   /\ dec[Cursor(i)].offset <= Len(dec[Cursor(i)].data))
        /\ (calls[i].pc = "done"
              /\ calls[i].bytes = <<131, 108, 0, 0, 0, 2>>
                                    \o Tail(Envelope(<<131, 115, 3, 110, 105, 108>>))
                                    \o <<97, 1, 106>>
                => /\ calls[i].err = NoErr
                   /\ calls[i].val = ListV(<<NilV, IntV(1)>>))

\* C21 as stated: a big-integer term of at most 4 digits decodes to a native
\* 32-bit number with the sign applied, unsigned when the sign byte is 0 and
\* signed when it is not, for every magnitude 0 .. 2^32-1; a decimal string
\* is returned only for terms of 5 to 8 digits.
C21_NarrowBig ==
    (ret.op = "Unpack" /\ origin.kind = "Big")
        => /\ ret.err = NoErr
           /\ (Len(origin.digits) <= 4
                 => /\ Kind(ret.val) = (IF origin.sign = 0 THEN "uint32" ELSE "int32")
                    /\ Denotes(ret.val, origin.sign, origin.digits))
           /\ (Kind(ret.val) = "string" => Len(origin.digits) \in 5..8)

\* The 64-bit integer of the limbs l is outside the signed 32-bit range.
Outside32(l) ==
    ~ \/ (\A i \in 5..8 : l[i] = 0) /\ l[4] < 128
      \/ (\A i \in 5..8 : l[i] = 255) /\ l[4] >= 128

\* C25: Pack never fails for an int or int64; a value outside the signed
\* 32-bit range is emitted as tag 98 with the low 32 bits of the value, and
\* Unpack of it returns without error a 32-bit integer that is not the value.
C25_IntOverflow ==
    (origin.kind = "Wide" /\ ret.op # "none")
        => /\ alive
           /\ ret.err = NoErr
           /\ Outside32(value[2]) =>
                /\ wire = <<FORMAT_VERSION, INTEGER_EXT, value[2][4], value[2][3],
                            value[2][2], value[2][1]>>
                /\ ret.op = "Unpack" =>
                     /\ Kind(ret.val) = "int32"
                     /\ SubSeq(Uint64OfInt(ret.val[2]), 1, 4) = SubSeq(value[2], 1, 4)
                     /\ Uint64OfInt(ret.val[2]) # value[2]

C25_Witness ==
    /\ origin.kind = "Wide"
    /\ ret.op = "Unpack"
    /\ value = <<"int64", <<5, 0, 0, 0, 1, 0, 0, 0>>>>
    /\ ret.val = Int32V(5)

\* C24: for a valid payload p and bytes t, Unpack of p followed by t returns
\* without error the value that Unpack of p returns: it decodes one term and
\* never examines what follows it.
C24_TrailingBytes ==
    (ret.op = "Unpack" /\ origin.kind = "Extended")
        => LET u == unpack(NewDecoder, origin.base)
           IN  /\ alive
               /\ u.err = NoErr
               /\ ret.err = NoErr
               /\ ret.val = u.val
               /\ data = <<>>
               /\ offset = 0

C24_Witness ==
    /\ ret.op = "Unpack"
    /\ origin.kind = "Extended"
    /\ Len(wire) = Len(origin.base) + 2
    /\ origin.base[2] = MAP_EXT
    /\ wire[Len(wire)] = FORMAT_VERSION
    /\ Kind(ret.val) = "map"
    /\ ret.val # MapV(<<>>)

\* The call of caller i has returned what it returns on a fresh Decoder.
AsAlone(i) ==
    LET u == unpack(NewDecoder, calls[i].bytes)
    IN  /\ calls[i].err = u.err
        /\ (~IsPanic(u.err) => calls[i].val = u.val)

\* C22: after every return from Unpack the Decoder has offset 0 and no data,
\* whether the call succeeded, failed in decode at any depth or failed on the
\* version byte; and each of the calls made one after the other on one
\* instance returns what it returns on a fresh Decoder.
C22_ResetInvariant ==
    /\ (last.inst \in {1, 3} /\ calls[last.inst].pc = "done" /\ alive
          /\ (last.op = "begin" => ~calls[last.inst].mixed))
            => dec[Cursor(last.inst)] = NewDecoder
    /\ \A i \in {1, 3} :
          (calls[i].pc = "done" /\ alive /\ ~calls[i].mixed) => AsAlone(i)

C22_Witness ==
    /\ calls[1].pc = "done" /\ ~calls[1].mixed
    /\ calls[1].bytes = <<131, 108, 0, 0, 0, 1, 115, 4, 116, 114>>
    /\ calls[1].err = ErrReadString
    /\ calls[3].pc = "done" /\ ~calls[3].mixed
    /\ calls[3].err = NoErr
    /\ Kind(calls[3].val) = "map"
    /\ last.inst = 3
    /\ last.op = "reset"
    /\ last.before.offset > 0

\* C26: a call of Unpack that returns something else than it returns alone
\* has overlapped another call on the same Decoder; calls on one instance
\* that never overlap all return what they return alone.
C26_SharedRace ==
    \A i \in {1, 3} :
        (calls[i].pc = "done" /\ ~AsAlone(i)) => calls[i].mixed

\* An interleaving of two calls on one Decoder in which a call whose payload
\* is valid returns an error.
C26_Witness ==
    /\ calls[1].pc = "done"
    /\ calls[1].mixed
    /\ calls[1].bytes = <<131, 97, 5>>
    /\ calls[1].err # NoErr
    /\ calls[3].pc = "done"
    /\ calls[3].mixed

\* C23: Unpack terminates whatever counts its input declares.  A call makes
\* at most as many calls of decode as its payload has bytes, each of which
\* consumes a byte of the buffer or fails, and at most twice as many reads;
\* a read never moves the offset back within a buffer; after a read that
\* fails the call reads no more; and a call in progress always has a next
\* statement.
C23_Termination ==
    /\ \A i \in Insts :
          /\ calls[i].decodes <= Len(calls[i].bytes)
          /\ calls[i].reads <= 2 * Len(calls[i].bytes)
          /\ (calls[i].pc = "run" /\ dec[Cursor(i)].data = Tail(calls[i].bytes))
                => calls[i].decodes <= dec[Cursor(i)].offset + 1
          /\ calls[i].pc = "run" => calls[i].stack # <<>>
    /\ last.op \in {"read8", "read16", "read32", "read64", "readString"} =>
          /\ dec[Cursor(last.inst)].data = last.before.data
          /\ dec[Cursor(last.inst)].offset >= last.before.offset
          /\ last.err # NoErr =>
                \/ calls[last.inst].pc = "done"
                \/ Head(calls[last.inst].stack)[1] = "reset"

C23_Witness ==
    /\ calls[1].pc = "done"
    /\ calls[1].bytes = <<131, 105, 255, 255, 255, 255, 97, 1, 97, 2>>
    /\ calls[1].err = ErrRead8
    /\ calls[1].decodes = 4
    /\ calls[2].pc = "done"
    /\ calls[2].bytes = <<131, 116, 128, 0, 0, 0, 97, 1, 106, 97>>
    /\ calls[2].err = ErrRead8
====
